---------------------------- MODULE Spec2Model ----------------------------
(***************************************************************************)
(* A state-machine model of the CDDP solver context (cddp_core.cpp) and of *)
(* the interior-point DDP strategy (ipddp_solver.cpp, stored in this tree  *)
(* as src/CMakeLists.txt from line 532 on).                                *)
(*                                                                         *)
(* Representation.                                                         *)
(*  - State and control vectors have dimension 1 (n_x = n_u = 1) and are   *)
(*    written as integers; a trajectory is a sequence of them.  TLA+       *)
(*    sequences are 1-based: X_[t+1] here is X_[t] in the C++.             *)
(*  - Real quantities live on an integer grid.  One is the grid value of   *)
(*    1.0; a product a*b is (a*b) \div One, a quotient a/b is              *)
(*    (a*One) \div b.  Infinity is the grid value standing for +inf.       *)
(*  - The dynamical system, the objective and the constraints are user     *)
(*    code.  They are represented by one concrete instance (Dynamics,      *)
(*    RunningCost, TerminalCost, ConstraintG); the quantities the passes   *)
(*    derive from their derivatives (positive-definiteness of Q_uu, the    *)
(*    gains, dV) are chosen by the environment with \E.                    *)
(***************************************************************************)
EXTENDS Integers, Sequences, FiniteSets, TLC

(***************************************************************************)
(* Bounds of the model.                                                    *)
(***************************************************************************)
MaxHorizon == 2
MaxOps == 3
MaxDualDim == 2

(***************************************************************************)
(* Program constants.                                                      *)
(***************************************************************************)
Infinity == 1000000

ConstraintNames == {"c1", "c2"}
DualDims == 1..MaxDualDim
Horizons == 0..MaxHorizon
BuiltinSolvers == {"CLDDP", "ASDDP", "LogDDP", "IPDDP", "MSIPDDP", "ALDDP"}
BuiltinAliases == {"CLCDDP", "LOGDDP"}
SolverNames == {"IPDDP", "Custom", "NoSuchSolver"}
RegisteredNames == {"Custom", "IPDDP"}
Factories == {"FactoryA", "FactoryB"}

(***************************************************************************)
(* Grid arithmetic.                                                        *)
(***************************************************************************)
One == 1000

Max(a, b) == IF a >= b THEN a ELSE b
Min(a, b) == IF a <= b THEN a ELSE b
Abs(a) == IF a >= 0 THEN a ELSE -a
Mul(a, b) == (a * b) \div One
Div(a, b) == (a * One) \div b

RECURSIVE SeqSum(_)
SeqSum(s) == IF s = <<>> THEN 0 ELSE Head(s) + SeqSum(Tail(s))

RECURSIVE SeqMax(_)
SeqMax(s) == IF s = <<>> THEN 0 ELSE Max(Head(s), SeqMax(Tail(s)))

RECURSIVE SetSum(_, _)
SetSum(f, S) == IF S = {} THEN 0
                ELSE LET x == CHOOSE y \in S : TRUE
                     IN  f[x] + SetSum(f, S \ {x})

Restrict(f, S) == [x \in S |-> f[x]]

(***************************************************************************)
(* std::vector::resize: keep the prefix, pad with value-initialised        *)
(* elements (written 0 here).                                              *)
(***************************************************************************)
Resize(s, n, pad) == [i \in 1..n |-> IF i <= Len(s) THEN s[i] ELSE pad]

Const(n, v) == [i \in 1..n |-> v]

(***************************************************************************)
(* CDDPOptions.  options.hpp is not part of this tree; the fields are the  *)
(* ones the code reads.  Grid values: tolerance 100 is 0.1, mu_initial     *)
(* 1000 is 1.0.  The regularization is kept in its own integer units and   *)
(* update_factor is an integer multiplier.                                 *)
(***************************************************************************)
BaseOptions ==
  [ warm_start |-> FALSE,
    max_iterations |-> 2,
    max_cpu_time |-> 0,
    tolerance |-> 100,
    acceptable_tolerance |-> 100,
    enable_parallel |-> FALSE,
    return_iteration_info |-> TRUE,
    reg_initial_value |-> 1,
    reg_update_factor |-> 10,
    reg_max_value |-> 100,
    reg_min_value |-> 1,
    ls_max_iterations |-> 2,
    ls_initial_step_size |-> 1000,
    ls_min_step_size |-> 1,
    ls_step_reduction_factor |-> 500,
    strategy |-> "ADAPTIVE",
    mu_initial |-> 1000,
    mu_min_value |-> 1,
    mu_update_factor |-> 200,
    mu_update_power |-> 2,
    min_fraction_to_boundary |-> 990,
    dual_var_init_scale |-> 100,
    slack_var_init_scale |-> 100,
    max_violation_threshold |-> 10000,
    violation_acceptance_threshold |-> 10,
    min_violation_for_armijo_check |-> 1,
    armijo_constant |-> 1,
    merit_acceptance_threshold |-> 10 ]

(***************************************************************************)
(* The step-size ladder built by the constructor and by setOptions.        *)
(***************************************************************************)
RECURSIVE AlphaLoop(_, _, _, _)
AlphaLoop(o, i, current_alpha, acc) ==
  IF i >= o.ls_max_iterations THEN acc
  ELSE LET pushed == Append(acc, current_alpha)
           next   == Mul(current_alpha, o.ls_step_reduction_factor)
       IN  IF next < o.ls_min_step_size /\ i < o.ls_max_iterations - 1
           THEN Append(pushed, o.ls_min_step_size)
           ELSE AlphaLoop(o, i + 1, next, pushed)

AlphaSequence(o) ==
  LET a == AlphaLoop(o, 0, o.ls_initial_step_size, <<>>)
  IN  IF a = <<>> THEN <<o.ls_initial_step_size>> ELSE a

(***************************************************************************)
(* The user code the context is given.  The dynamical system is the scalar *)
(* integrator x' = x + timestep*u with timestep 1.0 (state Jacobian 0,     *)
(* control Jacobian 1, no second derivatives).  The objective is           *)
(* 0.5*R*u^2 per stage plus 0.5*Qf*(x - reference)^2 at the end; R may be  *)
(* negative (a non-convex stage cost).  A path constraint of dual          *)
(* dimension m is evaluate(x,u) = (x+u,..,x+u) <= (UpperBound,..).         *)
(***************************************************************************)
Qf == 1000
UpperBound == 500
ReferenceState == 1000
InitialState == 0
CostCurvatures == {1000, -1500}

NullObjective == [set |-> FALSE, R |-> 0]
QuadraticObjective(r) == [set |-> TRUE, R |-> r]
ObjectiveInputs == {NullObjective} \cup {QuadraticObjective(r) : r \in CostCurvatures}

getDiscreteDynamics(x, u) == x + u
running_cost(obj, x, u) == Mul(Mul(obj.R, u), u) \div 2
terminal_cost(obj, x) == Mul(Mul(Qf, x - ReferenceState), x - ReferenceState) \div 2
ConstraintG(m, x, u) == Const(m, x + u - UpperBound)

(***************************************************************************)
(* Trajectories a caller may hand to setInitialTrajectory: for every       *)
(* length n, n controls of 0.6 and n+1 states of 0; and, of the longest    *)
(* length, controls of -0.6 with states of 0.                              *)
(***************************************************************************)
TrajectoryInputs ==
  { [X |-> Const(n + 1, 0), U |-> Const(n, 600)] : n \in Horizons }
    \cup { [X |-> Const(MaxHorizon + 1, 0), U |-> Const(MaxHorizon, -600)] }

VARIABLES
  ctx,                        \* the CDDP object
  external_solver_registry_,  \* static registry: name -> factory
  solver_,                    \* the strategy object CDDP::solve created
  pc,                         \* position of the running solve ("idle": none)
  frame,                      \* locals of the running solve
  ret,                        \* outcome of the last completed call
  sols,                       \* the solutions returned to the caller so far
  nops,                       \* number of calls made on the context
  futures,                    \* the forward-pass trials launched with std::async
  precompute                  \* the parallel pre-computation of derivatives

vars == <<ctx, external_solver_registry_, solver_, pc, frame, ret, sols, nops,
          futures, precompute>>

EmptyMap == [x \in {} |-> 0]

(***************************************************************************)
(* CDDP::CDDP                                                              *)
(***************************************************************************)
Constructor(system, objective, horizon, options) ==
  [ system_ |-> system,
    objective_ |-> objective,
    horizon_ |-> horizon,
    initial_state_ |-> InitialState,
    reference_state_ |-> ReferenceState,
    options_ |-> options,
    alphas_ |-> AlphaSequence(options),
    initialized_ |-> FALSE,
    X_ |-> <<>>,
    U_ |-> <<>>,
    cost_ |-> 0,
    merit_function_ |-> 0,
    inf_pr_ |-> 0,
    inf_du_ |-> 0,
    inf_comp_ |-> 0,
    step_norm_ |-> 0,
    alpha_pr_ |-> options.ls_initial_step_size,
    regularization_ |-> options.reg_initial_value,
    terminal_regularization_ |-> options.reg_initial_value,
    total_dual_dim_ |-> 0,
    path_constraint_set_ |-> EmptyMap,
    terminal_constraint_set_ |-> EmptyMap ]

(***************************************************************************)
(* std::map operations on the constraint stores (name -> dual dimension).  *)
(***************************************************************************)
MapPut(m, k, v) == [x \in DOMAIN m \cup {k} |-> IF x = k THEN v ELSE m[x]]
MapErase(m, k) == [x \in DOMAIN m \ {k} |-> m[x]]

MissingConfiguration(c) == ~c.initialized_ /\ (~c.system_ \/ ~c.objective_.set)

initializeProblemIfNecessary(c) ==
  IF c.initialized_ THEN c
  ELSE
    LET preserve_trajectories ==
          /\ c.options_.warm_start
          /\ c.X_ # <<>> /\ c.U_ # <<>>
          /\ Len(c.X_) = c.horizon_ + 1
          /\ Len(c.U_) = c.horizon_
        X1 == IF c.X_ = <<>> \/ Len(c.X_) # c.horizon_ + 1
              THEN IF preserve_trajectories
                   THEN Resize(c.X_, c.horizon_ + 1, 0)
                   ELSE Const(c.horizon_ + 1, 0)
              ELSE c.X_
        X2 == [X1 EXCEPT ![1] = c.initial_state_]
        U1 == IF c.U_ = <<>> \/ Len(c.U_) # c.horizon_
              THEN IF preserve_trajectories
                   THEN Resize(c.U_, c.horizon_, 0)
                   ELSE Const(c.horizon_, 0)
              ELSE c.U_
    IN  [c EXCEPT !.X_ = X2, !.U_ = U1,
                  !.cost_ = Infinity, !.merit_function_ = Infinity,
                  !.inf_pr_ = Infinity, !.inf_du_ = Infinity,
                  !.inf_comp_ = Infinity,
                  !.regularization_ = c.options_.reg_initial_value,
                  !.terminal_regularization_ = c.options_.reg_initial_value,
                  !.initialized_ = TRUE]

increaseRegularization(c) ==
  [c EXCEPT !.regularization_ =
     Min(c.regularization_ * c.options_.reg_update_factor, c.options_.reg_max_value)]

decreaseRegularization(c) ==
  [c EXCEPT !.regularization_ =
     Max(c.regularization_ \div c.options_.reg_update_factor, c.options_.reg_min_value)]

isRegularizationLimitReached(c) == c.regularization_ >= c.options_.reg_max_value

(***************************************************************************)
(* CDDP::createSolver: the kind of solver object made for a name, "null"   *)
(* when there is none.  Every registered factory makes an IPDDPSolver;     *)
(* the built-in strategies other than IPDDP are not part of this tree.     *)
(***************************************************************************)
createSolverDefaultsToIPDDP(registry, solver_type) == "IPDDP"

createSolverBuiltinFirst(registry, solver_type) ==
  IF solver_type \in BuiltinSolvers THEN solver_type
  ELSE IF solver_type \in DOMAIN registry THEN registry[solver_type]
  ELSE "null"

createSolver(registry, solver_type) ==
  IF solver_type \in DOMAIN registry THEN registry[solver_type]
  ELSE IF solver_type \in {"CLCDDP", "CLDDP"} THEN "CLDDP"
  ELSE IF solver_type = "ASDDP" THEN "ASDDP"
  ELSE IF solver_type \in {"LogDDP", "LOGDDP"} THEN "LogDDP"
  ELSE IF solver_type = "IPDDP" THEN "IPDDP"
  ELSE IF solver_type = "MSIPDDP" THEN "MSIPDDP"
  ELSE IF solver_type = "ALDDP" THEN "ALDDP"
  ELSE "null"

(***************************************************************************)
(* The solution of the unknown-solver branch.  Its status text is          *)
(* "UnknownSolver - No solver registered for '<name>'"; the model keeps    *)
(* the leading word and carries the name in solver_name.                   *)
(***************************************************************************)
UnknownSolverSolution(solver_type) ==
  [ solver_name |-> solver_type,
    status_message |-> "UnknownSolver",
    iterations_completed |-> 0,
    solve_time_ms |-> 0,
    final_objective |-> 0,
    final_step_length |-> One,
    time_points |-> <<>>,
    state_trajectory |-> <<>>,
    control_trajectory |-> <<>> ]

(***************************************************************************)
(* IPDDPSolver.  The per-constraint stores G_, Y_, S_, k_y_, K_y_, k_s_,   *)
(* K_s_ map a constraint name to a sequence over time steps of vectors of  *)
(* the constraint's dual dimension.  ldlt_solvers holds, per time step,    *)
(* the matrix last factored there.                                         *)
(***************************************************************************)
NameOrder == <<"c1", "c2">>
KeysInOrder(m) == SelectSeq(NameOrder, LAMBDA n : n \in DOMAIN m)

NewSolver(kind) ==
  [ kind |-> kind, mu_ |-> One \div 10, dV_ |-> <<0, 0>>, filter_ |-> <<>>,
    workspace_initialized |-> FALSE,
    k_u_ |-> <<>>, K_u_ |-> <<>>,
    ldlt_solvers |-> <<>>, ldlt_valid |-> <<>>,
    G_ |-> EmptyMap, Y_ |-> EmptyMap, S_ |-> EmptyMap,
    k_y_ |-> EmptyMap, K_y_ |-> EmptyMap, k_s_ |-> EmptyMap, K_s_ |-> EmptyMap ]

NoSolver == NewSolver("null")

RECURSIVE Concat(_, _, _)
Concat(M, keys, t) ==
  IF keys = <<>> THEN <<>> ELSE M[Head(keys)][t] \o Concat(M, Tail(keys), t)

RECURSIVE Ln(_)
Ln(x) == IF x <= 0 THEN -Infinity
         ELSE IF x >= 2 * One THEN 693 + Ln(x \div 2)
         ELSE IF x < One THEN Ln(2 * x) - 693
         ELSE ((x - One) * 693) \div One

SumAbs(v) == SeqSum([i \in 1..Len(v) |-> Abs(v[i])])
MaxAbs(v) == SeqMax([i \in 1..Len(v) |-> Abs(v[i])])

initializeConstraintStorage(c, sv) ==
  LET empty == [n \in DOMAIN c.path_constraint_set_ |-> Const(c.horizon_, <<>>)]
  IN  [sv EXCEPT !.G_ = empty, !.Y_ = empty, !.S_ = empty,
                 !.k_y_ = empty, !.K_y_ = empty, !.k_s_ = empty, !.K_s_ = empty]

(***************************************************************************)
(* s_i = max(slack_scale, -g_i); y_i = clamp(mu / s_i, 0.01*dual_scale,    *)
(* 100*dual_scale), with mu / 1e-12 when s_i < 1e-12.                      *)
(***************************************************************************)
SlackInit(o, g) == [i \in 1..Len(g) |-> Max(o.slack_var_init_scale, -g[i])]
DualInit(o, mu, s) ==
  [i \in 1..Len(s) |->
     LET y0 == IF s[i] <= 0 THEN Infinity ELSE Div(mu, s[i])
     IN  Max(o.dual_var_init_scale \div 100, Min(y0, o.dual_var_init_scale * 100))]

TrajectoryCost(c, X, U) ==
  SeqSum([t \in 1..c.horizon_ |-> running_cost(c.objective_, X[t], U[t])])
    + terminal_cost(c.objective_, X[Len(X)])

ZeroGains(c) ==
  [n \in DOMAIN c.path_constraint_set_ |->
     Const(c.horizon_, Const(c.path_constraint_set_[n], 0))]

initializeDualSlackVariables(c, sv) ==
  LET o  == c.options_
      Gn == [n \in DOMAIN c.path_constraint_set_ |->
               [t \in 1..c.horizon_ |->
                  ConstraintG(c.path_constraint_set_[n], c.X_[t], c.U_[t])]]
      Sn == [n \in DOMAIN Gn |-> [t \in 1..c.horizon_ |-> SlackInit(o, Gn[n][t])]]
      Yn == [n \in DOMAIN Gn |-> [t \in 1..c.horizon_ |-> DualInit(o, sv.mu_, Sn[n][t])]]
  IN  [ctx |-> [c EXCEPT !.cost_ = TrajectoryCost(c, c.X_, c.U_)],
       solver |-> [sv EXCEPT !.G_ = Gn, !.S_ = Sn, !.Y_ = Yn,
                             !.k_y_ = ZeroGains(c), !.K_y_ = ZeroGains(c),
                             !.k_s_ = ZeroGains(c), !.K_s_ = ZeroGains(c)]]

RECURSIVE Rollout(_, _, _)
Rollout(X, U, t) ==
  IF t > Len(U) \/ t >= Len(X) THEN X
  ELSE Rollout([X EXCEPT ![t + 1] = getDiscreteDynamics(X[t], U[t])], U, t + 1)

evaluateTrajectory(c, sv) ==
  LET X0 == [c.X_ EXCEPT ![1] = c.initial_state_]
      X1 == Rollout(X0, SubSeq(c.U_, 1, c.horizon_), 1)
      Gn == [n \in DOMAIN c.path_constraint_set_ |->
               [t \in 1..c.horizon_ |->
                  ConstraintG(c.path_constraint_set_[n], X1[t], c.U_[t])]]
  IN  [ctx |-> [c EXCEPT !.X_ = X1, !.cost_ = TrajectoryCost(c, X1, c.U_)],
       solver |-> [sv EXCEPT !.G_ = Gn]]

evaluateTrajectoryWarmStart(c, sv) ==
  LET Gn == [n \in DOMAIN c.path_constraint_set_ |->
               [t \in 1..c.horizon_ |->
                  ConstraintG(c.path_constraint_set_[n], c.X_[t], c.U_[t])]]
  IN  [ctx |-> [c EXCEPT !.cost_ = TrajectoryCost(c, c.X_, c.U_)],
       solver |-> [sv EXCEPT !.G_ = Gn]]

initializeDualSlackVariablesWarmStart(c, sv) ==
  LET o     == c.options_
      names == DOMAIN c.path_constraint_set_
      has_existing_dual_slack ==
        \A n \in names :
          /\ n \in DOMAIN sv.Y_ /\ n \in DOMAIN sv.S_
          /\ Len(sv.Y_[n]) = c.horizon_ /\ Len(sv.S_[n]) = c.horizon_
      Keep(n, t) ==
        /\ has_existing_dual_slack
        /\ Len(sv.Y_[n][t]) = c.path_constraint_set_[n]
        /\ Len(sv.S_[n][t]) = c.path_constraint_set_[n]
        /\ \A i \in 1..c.path_constraint_set_[n] :
             /\ sv.Y_[n][t][i] > 0 /\ sv.S_[n][t][i] > 0
             /\ sv.S_[n][t][i] * 10 >=
                  Max(o.slack_var_init_scale, -sv.G_[n][t][i])
      Sn == [n \in DOMAIN sv.S_ \cup names |->
               IF n \in names
               THEN [t \in 1..c.horizon_ |->
                       IF Keep(n, t) THEN sv.S_[n][t]
                       ELSE SlackInit(o, sv.G_[n][t])]
               ELSE sv.S_[n]]
      Yn == [n \in DOMAIN sv.Y_ \cup names |->
               IF n \in names
               THEN [t \in 1..c.horizon_ |->
                       IF Keep(n, t) THEN sv.Y_[n][t]
                       ELSE DualInit(o, sv.mu_, SlackInit(o, sv.G_[n][t]))]
               ELSE sv.Y_[n]]
  IN  [sv EXCEPT !.S_ = Sn, !.Y_ = Yn,
                 !.k_y_ = ZeroGains(c), !.K_y_ = ZeroGains(c),
                 !.k_s_ = ZeroGains(c), !.K_s_ = ZeroGains(c)]

(***************************************************************************)
(* resetBarrierFilter: merit = cost - mu * sum log s; inf_pr and inf_comp  *)
(* as infinity norms, the filter's violation as the l1 norm of g + s.      *)
(***************************************************************************)
AllComponents(M, c) ==
  LET keys == KeysInOrder(c.path_constraint_set_)
      RECURSIVE Over(_)
      Over(t) == IF t > c.horizon_ THEN <<>> ELSE Concat(M, keys, t) \o Over(t + 1)
  IN  Over(1)

resetBarrierFilter(c, sv) ==
  LET s == AllComponents(sv.S_, c)
      g == AllComponents(sv.G_, c)
      y == AllComponents(sv.Y_, c)
      idx == 1..Len(s)
      constrained == DOMAIN c.path_constraint_set_ # {}
      merit_function ==
        IF constrained
        THEN c.cost_ - Mul(sv.mu_, SeqSum([i \in idx |-> Ln(s[i])]))
        ELSE c.cost_
      inf_pr == IF constrained THEN SeqMax([i \in idx |-> Abs(g[i] + s[i])]) ELSE 0
      filter_constraint_violation ==
        IF constrained THEN SeqSum([i \in idx |-> Abs(g[i] + s[i])]) ELSE 0
      inf_comp ==
        IF constrained
        THEN SeqMax([i \in idx |-> Abs(Mul(y[i], s[i]) - sv.mu_)]) ELSE 0
  IN  [ctx |-> [c EXCEPT !.merit_function_ = merit_function,
                         !.inf_pr_ = inf_pr, !.inf_comp_ = inf_comp],
       solver |-> [sv EXCEPT !.filter_ =
                     << [merit_function |-> merit_function,
                         constraint_violation |-> filter_constraint_violation] >>]]

resetFilterSkipped(c, sv) == [ctx |-> c, solver |-> sv]

resetFilter(c, sv) == resetBarrierFilter(c, sv)

computeMaxConstraintViolation(c, sv) ==
  LET names == DOMAIN c.path_constraint_set_ \cap DOMAIN sv.G_
  IN  SeqMax(AllComponents(sv.G_, [c EXCEPT !.path_constraint_set_ =
                                      Restrict(c.path_constraint_set_, names)]))

computeScaledDualInfeasibility(c, sv) ==
  IF DOMAIN c.path_constraint_set_ = {} THEN c.inf_du_
  ELSE LET y == AllComponents(sv.Y_, c)
           s == AllComponents(sv.S_, c)
           smax == 100 * One
           m_plus_n == Len(y) + c.horizon_
           scaling_numerator ==
             IF m_plus_n > 0
             THEN (SumAbs(y) + SumAbs(s)) \div m_plus_n ELSE 0
           sd == Div(Max(smax, scaling_numerator), smax)
       IN  Div(c.inf_du_, sd)

(***************************************************************************)
(* IPDDPSolver::initialize.  MuNoConstraints is the hard-coded 1e-8, which *)
(* is below the grid's resolution.  trajectory_provided is passed in: the  *)
(* caller evaluates the test of lines 717-720, which reads U_[0].          *)
(* The reference-state check of lines 620-623 never fires here: the        *)
(* objective always carries the context's reference state.                 *)
(***************************************************************************)
MuNoConstraints == 0

TrajectoryIndexable(c) == Len(c.X_) >= c.horizon_ + 1 /\ Len(c.U_) >= c.horizon_

AllocateWorkspace(c, sv) ==
  IF sv.workspace_initialized THEN sv
  ELSE [sv EXCEPT !.ldlt_solvers = Const(c.horizon_, 0),
                  !.ldlt_valid = Const(c.horizon_, FALSE),
                  !.workspace_initialized = TRUE]

ValidWarmStart(c, sv) ==
  /\ Len(sv.k_u_) = c.horizon_ /\ Len(sv.K_u_) = c.horizon_
  /\ sv.k_u_ # <<>>

InitializeConsistentWarmStart(c, sv) ==
  LET sv1 == [sv EXCEPT !.mu_ = c.options_.mu_initial \div 10]
      e   == evaluateTrajectoryWarmStart([c EXCEPT !.step_norm_ = 0], sv1)
  IN  resetFilter(e.ctx, initializeDualSlackVariablesWarmStart(e.ctx, e.solver))

InitializeWarmStartTrajectory(c, sv) ==
  LET o   == c.options_
      sv1 == initializeConstraintStorage(c,
               [sv EXCEPT !.k_u_ = Const(c.horizon_, 0),
                          !.K_u_ = Const(c.horizon_, 0),
                          !.dV_ = <<0, 0>>])
      e   == IF DOMAIN c.path_constraint_set_ = {}
             THEN [ctx |-> c, solver |-> [sv1 EXCEPT !.mu_ = MuNoConstraints]]
             ELSE LET w == evaluateTrajectoryWarmStart(c, sv1)
                      max_constraint_violation ==
                        computeMaxConstraintViolation(w.ctx, w.solver)
                  IN  [ctx |-> w.ctx,
                       solver |-> [w.solver EXCEPT !.mu_ =
                          IF max_constraint_violation <= o.tolerance
                          THEN o.tolerance \div 100
                          ELSE IF max_constraint_violation <= One \div 10
                          THEN o.tolerance
                          ELSE o.mu_initial \div 10]]
      c1  == [e.ctx EXCEPT !.regularization_ = o.reg_initial_value,
                           !.step_norm_ = 0]
  IN  resetFilter(c1, initializeDualSlackVariablesWarmStart(c1, e.solver))

InterpolatedTrajectory(c) ==
  [c EXCEPT
     !.X_ = [t \in 1..(c.horizon_ + 1) |->
               c.initial_state_ +
                 ((t - 1) * (c.reference_state_ - c.initial_state_)) \div c.horizon_],
     !.U_ = Const(c.horizon_, 0)]

InitializeColdStart(c, sv, trajectory_provided) ==
  LET o   == c.options_
      c0  == IF trajectory_provided THEN c ELSE InterpolatedTrajectory(c)
      sv1 == initializeConstraintStorage(c0,
               [sv EXCEPT !.k_u_ = Const(c.horizon_, 0),
                          !.K_u_ = Const(c.horizon_, 0),
                          !.dV_ = <<0, 0>>])
      sv2 == [sv1 EXCEPT !.mu_ = IF DOMAIN c.path_constraint_set_ = {}
                                 THEN MuNoConstraints ELSE o.mu_initial]
      d   == initializeDualSlackVariables(c0, sv2)
      c1  == [d.ctx EXCEPT !.regularization_ = o.reg_initial_value,
                           !.step_norm_ = 0]
      e   == evaluateTrajectory(c1, d.solver)
  IN  resetFilter(e.ctx, e.solver)

initialize(c, sv0, trajectory_provided) ==
  LET sv == AllocateWorkspace(c, sv0)
  IN  IF c.options_.warm_start
      THEN IF ValidWarmStart(c, sv)
           THEN InitializeConsistentWarmStart(c, sv)
           ELSE InitializeWarmStartTrajectory(c, sv)
      ELSE InitializeColdStart(c, sv, trajectory_provided)

(***************************************************************************)
(* IPDDPSolver::backwardPass.  With n_x = n_u = 1, A = B = 1, l_x = l_xx = *)
(* l_ux = 0, l_u = R*u, l_uu = R, and every constraint row has g_x = g_u = *)
(* 1.  A factorization reports failure when the factored matrix is not     *)
(* positive.  The sweep is a recursion from t = horizon down to 1 over the *)
(* record w of its running values; w.ok = FALSE is the early return.       *)
(***************************************************************************)
RECURSIVE OffsetOf(_, _, _)
OffsetOf(keys, dims, name) ==
  IF keys = <<>> \/ Head(keys) = name THEN 0
  ELSE dims[Head(keys)] + OffsetOf(Tail(keys), dims, name)

Segment(c, v, name) ==
  LET offset == OffsetOf(KeysInOrder(c.path_constraint_set_), c.path_constraint_set_, name)
  IN  SubSeq(v, offset + 1, offset + c.path_constraint_set_[name])

StoreSegments(c, M, t, v) ==
  [n \in DOMAIN M |->
     IF n \in DOMAIN c.path_constraint_set_
     THEN [M[n] EXCEPT ![t] = Segment(c, v, n)] ELSE M[n]]

BackwardStart(c, sv) ==
  [ ok |-> TRUE,
    V_x |-> Mul(Qf, c.X_[Len(c.X_)] - ReferenceState),
    V_xx |-> Qf,
    solver |-> [sv EXCEPT !.dV_ = <<0, 0>>],
    inf_du |-> 0, inf_pr |-> 0, inf_comp |-> 0, step_norm |-> 0 ]

UnconstrainedStep(c, w, t) ==
  LET sv   == w.solver
      u    == c.U_[t]
      Q_x  == w.V_x
      Q_u  == Mul(c.objective_.R, u) + w.V_x
      Q_xx == w.V_xx
      Q_ux == w.V_xx
      Q_uu == c.objective_.R + w.V_xx + c.regularization_
      need_recompute == ~sv.ldlt_valid[t]
      factored == IF need_recompute THEN Q_uu ELSE sv.ldlt_solvers[t]
      sv1  == [sv EXCEPT !.ldlt_solvers[t] = factored, !.ldlt_valid[t] = TRUE]
  IN  IF factored <= 0
      THEN [w EXCEPT !.ok = FALSE,
                     !.solver = [sv1 EXCEPT !.ldlt_valid[t] = FALSE]]
      ELSE LET k_u == -Div(Q_u, factored)
               K_u == -Div(Q_ux, factored)
           IN  [ ok |-> TRUE,
                 V_x |-> Q_x + Mul(K_u, Q_u) + Mul(Q_ux, k_u)
                           + Mul(Mul(K_u, Q_uu), k_u),
                 V_xx |-> Q_xx + 2 * Mul(K_u, Q_ux) + Mul(Mul(K_u, Q_uu), K_u),
                 solver |-> [sv1 EXCEPT !.k_u_[t] = k_u, !.K_u_[t] = K_u,
                               !.dV_ = << sv.dV_[1] + Mul(k_u, Q_u),
                                          sv.dV_[2] + Mul(k_u, Mul(Q_uu, k_u)) \div 2 >>],
                 inf_du |-> Max(w.inf_du, Abs(Q_u)),
                 inf_pr |-> w.inf_pr, inf_comp |-> w.inf_comp,
                 step_norm |-> Max(w.step_norm, Abs(k_u)) ]

ConstrainedStep(c, w, t) ==
  LET sv   == w.solver
      keys == KeysInOrder(c.path_constraint_set_)
      y    == Concat(sv.Y_, keys, t)
      s    == Concat(sv.S_, keys, t)
      g    == Concat(sv.G_, keys, t)
      idx  == 1..Len(y)
      u    == c.U_[t]
      sumY == SeqSum(y)
      Q_x  == sumY + w.V_x
      Q_u  == Mul(c.objective_.R, u) + sumY + w.V_x
      Q_xx == w.V_xx
      Q_ux == w.V_xx
      Q_uu == c.objective_.R + w.V_xx
      YSinv == [i \in idx |-> Div(y[i], s[i])]
      primal_residual == [i \in idx |-> g[i] + s[i]]
      complementary_residual == [i \in idx |-> Mul(y[i], s[i]) - sv.mu_]
      rhat == [i \in idx |-> Mul(y[i], primal_residual[i]) - complementary_residual[i]]
      Q_uu_reg == Q_uu + SeqSum(YSinv) + c.regularization_
  IN  IF Q_uu_reg <= 0 THEN [w EXCEPT !.ok = FALSE]
      ELSE
        LET S_inv_rhat == [i \in idx |-> Div(rhat[i], s[i])]
            k_u == -Div(Q_u + SeqSum(S_inv_rhat), Q_uu_reg)
            K_u == -Div(Q_ux + SeqSum(YSinv), Q_uu_reg)
            k_y == [i \in idx |-> Div(rhat[i] + Mul(y[i], k_u), s[i])]
            K_y == [i \in idx |-> Mul(YSinv[i], One + K_u)]
            k_s == [i \in idx |-> -primal_residual[i] - k_u]
            K_s == [i \in idx |-> -One - K_u]
            Q_u2  == Q_u + SeqSum(S_inv_rhat)
            Q_x2  == Q_x + SeqSum(S_inv_rhat)
            Q_xx2 == Q_xx + SeqSum(YSinv)
            Q_ux2 == Q_ux + SeqSum(YSinv)
            Q_uu2 == Q_uu + SeqSum(YSinv)
        IN  [ ok |-> TRUE,
              V_x |-> Q_x2 + Mul(K_u, Q_u2) + Mul(Q_ux2, k_u)
                        + Mul(Mul(K_u, Q_uu2), k_u),
              V_xx |-> Q_xx2 + 2 * Mul(K_u, Q_ux2) + Mul(Mul(K_u, Q_uu2), K_u),
              solver |-> [sv EXCEPT
                 !.k_u_[t] = k_u, !.K_u_[t] = K_u,
                 !.k_y_ = StoreSegments(c, sv.k_y_, t, k_y),
                 !.K_y_ = StoreSegments(c, sv.K_y_, t, K_y),
                 !.k_s_ = StoreSegments(c, sv.k_s_, t, k_s),
                 !.K_s_ = StoreSegments(c, sv.K_s_, t, K_s),
                 !.dV_ = << sv.dV_[1] + Mul(k_u, Q_u2),
                            sv.dV_[2] + Mul(k_u, Mul(Q_uu2, k_u)) \div 2 >>],
              inf_du |-> Max(w.inf_du, Abs(Q_u2)),
              inf_pr |-> Max(w.inf_pr, MaxAbs(primal_residual)),
              inf_comp |-> Max(w.inf_comp, MaxAbs(complementary_residual)),
              step_norm |-> Max(w.step_norm, Abs(k_u)) ]

RECURSIVE BackwardSweep(_, _, _)
BackwardSweep(c, w, t) ==
  IF t < 1 \/ ~w.ok THEN w
  ELSE BackwardSweep(c,
         IF DOMAIN c.path_constraint_set_ = {}
         THEN UnconstrainedStep(c, w, t) ELSE ConstrainedStep(c, w, t),
         t - 1)

backwardPassIgnoresFailure(c, sv) ==
  LET w == BackwardSweep(c, BackwardStart(c, sv), c.horizon_)
  IN  [ok |-> TRUE, solver |-> w.solver,
       ctx |-> [c EXCEPT !.inf_du_ = w.inf_du, !.step_norm_ = w.step_norm,
                         !.inf_pr_ = w.inf_pr, !.inf_comp_ = w.inf_comp]]

backwardPass(c, sv) ==
  LET w == BackwardSweep(c, BackwardStart(c, sv), c.horizon_)
  IN  IF w.ok
      THEN [ok |-> TRUE, solver |-> w.solver,
            ctx |-> [c EXCEPT !.inf_du_ = w.inf_du, !.step_norm_ = w.step_norm,
                              !.inf_pr_ = w.inf_pr, !.inf_comp_ = w.inf_comp]]
      ELSE [ok |-> FALSE, solver |-> w.solver, ctx |-> c]

(***************************************************************************)
(* IPDDPSolver::forwardPass(alpha).  The comparisons against (1 - tau) *   *)
(* old are made exactly, on the products.  reduction_ratio > 1e-6 is       *)
(* dJ > expected * 1e-6 when expected > 0 and dJ >= 0 otherwise.           *)
(***************************************************************************)
FailedResult(c, alpha) ==
  [ success |-> FALSE, cost |-> Infinity, merit_function |-> Infinity,
    alpha_pr |-> alpha, alpha_du |-> 0, constraint_violation |-> 0,
    state_trajectory |-> c.X_, control_trajectory |-> c.U_,
    has_duals |-> FALSE,
    dual_trajectory |-> EmptyMap, slack_trajectory |-> EmptyMap,
    constraint_eval_trajectory |-> EmptyMap ]

RECURSIVE ForwardRollout(_, _, _, _, _, _)
ForwardRollout(c, sv, alpha, Xn, Un, t) ==
  IF t > c.horizon_ THEN [X |-> Xn, U |-> Un]
  ELSE LET delta_x == Xn[t] - c.X_[t]
           u == c.U_[t] + Mul(alpha, sv.k_u_[t]) + Mul(sv.K_u_[t], delta_x)
       IN  ForwardRollout(c, sv, alpha,
                          [Xn EXCEPT ![t + 1] = getDiscreteDynamics(Xn[t], u)],
                          [Un EXCEPT ![t] = u], t + 1)

Tau(c, sv) == Max(c.options_.min_fraction_to_boundary, One - sv.mu_)

StepVectors(c, old, k, K, alpha, Xn) ==
  [n \in DOMAIN c.path_constraint_set_ |->
     [t \in 1..c.horizon_ |->
        [i \in 1..c.path_constraint_set_[n] |->
           old[n][t][i] + Mul(alpha, k[n][t][i])
             + Mul(K[n][t][i], Xn[t] - c.X_[t])]]]

FractionToBoundaryUnchecked(c, tau, new, old) == TRUE

FractionToBoundary(c, tau, new, old) ==
  \A n \in DOMAIN c.path_constraint_set_ :
    \A t \in 1..c.horizon_ :
      \A i \in 1..c.path_constraint_set_[n] :
        new[n][t][i] * One >= (One - tau) * old[n][t][i]

RECURSIVE DualLineSearch(_, _, _, _, _)
DualLineSearch(c, sv, tau, Xn, alphas) ==
  IF alphas = <<>> THEN [found |-> FALSE, alpha_du |-> 0, Y |-> sv.Y_]
  ELSE LET Y_trial == StepVectors(c, sv.Y_, sv.k_y_, sv.K_y_, Head(alphas), Xn)
       IN  IF FractionToBoundary(c, tau, Y_trial, sv.Y_)
           THEN [found |-> TRUE, alpha_du |-> Head(alphas), Y |-> Y_trial]
           ELSE DualLineSearch(c, sv, tau, Xn, Tail(alphas))

FilterAcceptance(o, merit_new, violation_new, merit_old, violation_old, expected_improvement) ==
  IF violation_new > o.max_violation_threshold
  THEN violation_new * One < (One - o.violation_acceptance_threshold) * violation_old
  ELSE IF /\ Max(violation_new, violation_old) < o.min_violation_for_armijo_check
          /\ expected_improvement < 0
  THEN merit_new < merit_old + Mul(o.armijo_constant, expected_improvement)
  ELSE \/ merit_new < merit_old - Mul(o.merit_acceptance_threshold, violation_new)
       \/ violation_new * One <
            (One - o.violation_acceptance_threshold) * violation_old

forwardPass(c, sv, alpha) ==
  LET o    == c.options_
      tau  == Tau(c, sv)
      X0   == [c.X_ EXCEPT ![1] = c.initial_state_]
      r    == ForwardRollout(c, sv, alpha, X0, c.U_, 1)
      cost_new == TrajectoryCost(c, r.X, r.U)
  IN  IF DOMAIN c.path_constraint_set_ = {}
      THEN LET dJ == c.cost_ - cost_new
               expected == -Mul(alpha, sv.dV_[1] + Mul(alpha, sv.dV_[2]) \div 2)
           IN  [FailedResult(c, alpha) EXCEPT
                  !.success = IF expected > 0 THEN dJ > expected \div 1000000
                              ELSE dJ >= 0,
                  !.cost = cost_new, !.merit_function = cost_new,
                  !.alpha_du = One,
                  !.state_trajectory = r.X, !.control_trajectory = r.U]
      ELSE
        LET S_new == StepVectors(c, sv.S_, sv.k_s_, sv.K_s_, alpha, r.X)
            d     == DualLineSearch(c, sv, tau, r.X, c.alphas_)
            G_new == [n \in DOMAIN sv.G_ |->
                        IF n \in DOMAIN c.path_constraint_set_
                        THEN [t \in 1..c.horizon_ |->
                                ConstraintG(c.path_constraint_set_[n], r.X[t], r.U[t])]
                        ELSE sv.G_[n]]
            sn    == AllComponents(S_new, c)
            gn    == AllComponents(G_new, c)
            merit_function_new ==
              cost_new - Mul(sv.mu_, SeqSum([i \in 1..Len(sn) |-> Ln(sn[i])]))
            constraint_violation_new ==
              SeqSum([i \in 1..Len(sn) |-> Abs(gn[i] + sn[i])])
            constraint_violation_old ==
              IF sv.filter_ = <<>> THEN 0
              ELSE sv.filter_[Len(sv.filter_)].constraint_violation
        IN  IF ~FractionToBoundary(c, tau, S_new, sv.S_) THEN
              [FailedResult(c, alpha) EXCEPT
                 !.state_trajectory = r.X, !.control_trajectory = r.U]
            ELSE IF ~d.found THEN
              [FailedResult(c, alpha) EXCEPT
                 !.state_trajectory = r.X, !.control_trajectory = r.U]
            ELSE IF FilterAcceptance(o, merit_function_new, constraint_violation_new,
                                     c.merit_function_, constraint_violation_old,
                                     Mul(alpha, sv.dV_[1]))
            THEN [ success |-> TRUE, cost |-> cost_new,
                   merit_function |-> merit_function_new,
                   alpha_pr |-> alpha, alpha_du |-> d.alpha_du,
                   constraint_violation |-> constraint_violation_new,
                   state_trajectory |-> r.X, control_trajectory |-> r.U,
                   has_duals |-> TRUE,
                   dual_trajectory |-> d.Y, slack_trajectory |-> S_new,
                   constraint_eval_trajectory |-> G_new ]
            ELSE [FailedResult(c, alpha) EXCEPT
                    !.alpha_du = d.alpha_du,
                    !.state_trajectory = r.X, !.control_trajectory = r.U]

(***************************************************************************)
(* IPDDPSolver::performForwardPass.  Sequentially the first successful     *)
(* trial ends the search; in parallel every step size is tried and the     *)
(* lowest merit among the successes is kept (the first one on a tie).      *)
(***************************************************************************)
BestInitial(c) == [FailedResult(c, 0) EXCEPT !.state_trajectory = <<>>,
                                             !.control_trajectory = <<>>]

RECURSIVE SequentialTrials(_, _, _, _)
SequentialTrials(c, sv, alphas, best) ==
  IF alphas = <<>> THEN best
  ELSE LET result == forwardPass(c, sv, Head(alphas))
       IN  IF result.success /\ result.merit_function < best.merit_function
           THEN result
           ELSE SequentialTrials(c, sv, Tail(alphas), best)

RECURSIVE CollectFutures(_, _)
CollectFutures(results, best) ==
  IF results = <<>> THEN best
  ELSE LET result == Head(results)
       IN  CollectFutures(Tail(results),
             IF result.success /\ result.merit_function < best.merit_function
             THEN result ELSE best)

ParallelTrials(c, sv, alphas, best) ==
  CollectFutures([i \in 1..Len(alphas) |-> forwardPass(c, sv, alphas[i])], best)

performForwardPass(c, sv) ==
  IF c.options_.enable_parallel
  THEN ParallelTrials(c, sv, c.alphas_, BestInitial(c))
  ELSE SequentialTrials(c, sv, c.alphas_, BestInitial(c))

(***************************************************************************)
(* IPDDPSolver::updateBarrierParameters.  mu_update_power is an integer    *)
(* here; the ratio tests metric / mu < q are made on the products.         *)
(***************************************************************************)
RECURSIVE Pow(_, _)
Pow(x, p) == IF p = 0 THEN One ELSE Mul(x, Pow(x, p - 1))

TerminationMetric(c, sv) ==
  Max(computeScaledDualInfeasibility(c, sv), Max(c.inf_pr_, c.inf_comp_))

MonotonicMu(o, mu) == Max(o.mu_min_value, Mul(o.mu_update_factor, mu))

IpoptMu(o, mu) ==
  Max(o.tolerance \div 10, Min(Mul(o.mu_update_factor, mu), Pow(mu, o.mu_update_power)))

AdaptiveMu(o, mu, termination_metric) ==
  LET reduction_factor ==
        IF mu > 0 /\ termination_metric * 100 < mu THEN o.mu_update_factor \div 10
        ELSE IF mu > 0 /\ termination_metric * 10 < mu
        THEN (o.mu_update_factor * 3) \div 10
        ELSE IF mu > 0 /\ termination_metric * 2 < mu
        THEN (o.mu_update_factor * 6) \div 10
        ELSE o.mu_update_factor
  IN  Max(o.tolerance \div 100,
          Min(Mul(reduction_factor, mu), Pow(mu, o.mu_update_power)))

updateBarrierParameters(c, sv) ==
  LET o  == c.options_
      mu == sv.mu_
      unchanged == [ctx |-> c, solver |-> sv]
  IN  IF DOMAIN c.path_constraint_set_ = {} THEN unchanged
      ELSE IF o.strategy = "MONOTONIC"
      THEN resetFilter(c, [sv EXCEPT !.mu_ = MonotonicMu(o, mu)])
      ELSE IF o.strategy = "IPOPT"
      THEN IF TerminationMetric(c, sv) <= 10 * mu
           THEN resetFilter(c, [sv EXCEPT !.mu_ = IpoptMu(o, mu)])
           ELSE unchanged
      ELSE IF TerminationMetric(c, sv) <= Max(Mul(o.mu_update_factor, mu), mu * 2)
           THEN resetFilter(c, [sv EXCEPT !.mu_ =
                                  AdaptiveMu(o, mu, TerminationMetric(c, sv))])
           ELSE unchanged

(***************************************************************************)
(* IPDDPSolver::checkConvergence: the termination reason, or "" when the   *)
(* solve goes on.  x < sqrt(a) is x*x < a; inf_pr < 1e-4 is 10*inf_pr < 1  *)
(* in grid units.                                                          *)
(***************************************************************************)
checkConvergence(c, sv, dJ, iter) ==
  LET o == c.options_
  IN  IF TerminationMetric(c, sv) <= o.tolerance THEN "OptimalSolutionFound"
      ELSE IF /\ Abs(dJ) < o.acceptable_tolerance /\ iter > 10
              /\ c.inf_pr_ * c.inf_pr_ < o.acceptable_tolerance * One
              /\ c.inf_comp_ * c.inf_comp_ < o.acceptable_tolerance * One
      THEN "AcceptableSolutionFound"
      ELSE IF /\ iter >= 1
              /\ c.step_norm_ < o.tolerance * 10
              /\ c.inf_pr_ * 10 < 1
      THEN "AcceptableSolutionFound"
      ELSE ""

HistoryEntry(c, sv, alpha_pr, alpha_du) ==
  [ objective |-> c.cost_, merit_function |-> c.merit_function_,
    step_length_primal |-> alpha_pr, step_length_dual |-> alpha_du,
    dual_infeasibility |-> c.inf_du_, primal_infeasibility |-> c.inf_pr_,
    complementary_infeasibility |-> c.inf_comp_, barrier_mu |-> sv.mu_ ]

HistoryKeys ==
  {"objective", "merit_function", "step_length_primal", "step_length_dual",
   "dual_infeasibility", "primal_infeasibility", "complementary_infeasibility",
   "barrier_mu"}

EmptyHistory == [k \in HistoryKeys |-> <<>>]

PushBackSkipsDualStep(history, entry) ==
  [k \in HistoryKeys |->
     IF k = "step_length_dual" THEN history[k] ELSE Append(history[k], entry[k])]

PushBack(history, entry) == [k \in HistoryKeys |-> Append(history[k], entry[k])]

updateIterationHistory(c, sv, history, alpha_du) ==
  IF c.options_.return_iteration_info
  THEN PushBack(history, HistoryEntry(c, sv, c.alpha_pr_, alpha_du))
  ELSE history

(***************************************************************************)
(* The solution record IPDDPSolver::solve returns.                         *)
(***************************************************************************)
SolutionStillRunning(c, sv, f) ==
  [ solver_name |-> "IPDDP", status_message |-> "Running",
    iterations_completed |-> 0, solve_time_ms |-> 0 ]

Solution(c, sv, f) ==
  [ solver_name |-> "IPDDP",
    status_message |-> f.termination_reason,
    iterations_completed |-> f.iter,
    solve_time_ms |-> 0,
    final_objective |-> c.cost_,
    final_step_length |-> c.alpha_pr_,
    time_points |-> [t \in 1..(c.horizon_ + 1) |-> (t - 1) * One],
    state_trajectory |-> c.X_,
    control_trajectory |-> c.U_,
    control_feedback_gains_K |-> sv.K_u_,
    final_regularization |-> c.regularization_,
    final_barrier_parameter_mu |-> sv.mu_,
    final_primal_infeasibility |-> c.inf_pr_,
    final_dual_infeasibility |-> c.inf_du_,
    final_complementary_infeasibility |-> c.inf_comp_ ]
  @@ (IF c.options_.return_iteration_info
      THEN [ history_objective |-> f.history.objective,
             history_merit_function |-> f.history.merit_function,
             history_step_length_primal |-> f.history.step_length_primal,
             history_step_length_dual |-> f.history.step_length_dual,
             history_dual_infeasibility |-> f.history.dual_infeasibility,
             history_primal_infeasibility |-> f.history.primal_infeasibility,
             history_complementary_infeasibility |->
               f.history.complementary_infeasibility,
             history_barrier_mu |-> f.history.barrier_mu ]
      ELSE EmptyMap)

(***************************************************************************)
(* Calls and their outcomes.                                               *)
(***************************************************************************)
NoReturn == [kind |-> "none"]
Void == [kind |-> "void"]
Returned(v) == [kind |-> "returned", value |-> v]
ReturnedSolution(v) == [kind |-> "solution", value |-> v]
Threw(what) == [kind |-> "threw", what |-> what]
Undefined == [kind |-> "undefined"]

NoFrame == [solver_type |-> "", iter |-> 0, termination_reason |-> "",
            dJ |-> 0, history |-> EmptyHistory, forward_pass_success |-> FALSE]

NoFutures == [launched |-> FALSE, trials |-> <<>>]
NoPrecompute ==
  [running |-> FALSE, outcome |-> "none", horizon |-> 0, chunks |-> <<>>,
   done |-> {}, writes |-> <<>>]

OptionInputs ==
  { [BaseOptions EXCEPT !.warm_start = w, !.strategy = b, !.mu_min_value = m,
                        !.reg_initial_value = r]
      : w \in BOOLEAN, b \in {"MONOTONIC", "IPOPT", "ADAPTIVE"}, m \in {1, 5},
        r \in {0, 1} }
  \cup { [BaseOptions EXCEPT !.max_iterations = 0],
         [BaseOptions EXCEPT !.max_cpu_time = 1],
         [BaseOptions EXCEPT !.enable_parallel = TRUE],
         [BaseOptions EXCEPT !.return_iteration_info = FALSE],
         [BaseOptions EXCEPT !.tolerance = 1, !.reg_initial_value = 10],
         [BaseOptions EXCEPT !.min_violation_for_armijo_check = One] }

Init ==
  /\ \E system \in BOOLEAN, objective \in ObjectiveInputs,
        horizon \in Horizons, options \in OptionInputs :
       ctx = Constructor(system, objective, horizon, options)
  /\ external_solver_registry_ = EmptyMap
  /\ solver_ = NoSolver
  /\ pc = "idle"
  /\ frame = NoFrame
  /\ ret = NoReturn
  /\ sols = <<>>
  /\ nops = 0
  /\ futures = NoFutures
  /\ precompute = NoPrecompute

CallEnabled == pc = "idle" /\ nops < MaxOps

Completes(c, r) ==
  /\ ctx' = c
  /\ ret' = r
  /\ nops' = nops + 1
  /\ UNCHANGED <<external_solver_registry_, futures, precompute, solver_, pc, frame, sols>>

setDynamicalSystem(system) ==
  /\ CallEnabled
  /\ Completes([ctx EXCEPT !.system_ = system, !.initialized_ = FALSE], Void)

setObjective(objective) ==
  /\ CallEnabled
  /\ Completes([ctx EXCEPT !.objective_ = objective], Void)

setHorizon(horizon) ==
  /\ CallEnabled
  /\ Completes([ctx EXCEPT !.horizon_ = horizon, !.initialized_ = FALSE], Void)

setInitialTrajectory(X, U) ==
  /\ CallEnabled
  /\ Completes([ctx EXCEPT !.X_ = X, !.U_ = U,
                           !.initial_state_ = IF X # <<>> THEN X[1] ELSE @], Void)

addPathConstraint(constraint_name, dual_dim) ==
  /\ CallEnabled
  /\ Completes([ctx EXCEPT
                  !.path_constraint_set_ = MapPut(@, constraint_name, dual_dim),
                  !.total_dual_dim_ = @ + dual_dim,
                  !.initialized_ = FALSE], Void)

removePathConstraint(constraint_name) ==
  /\ CallEnabled
  /\ IF constraint_name \in DOMAIN ctx.path_constraint_set_
     THEN Completes([ctx EXCEPT
                       !.total_dual_dim_ = @ - ctx.path_constraint_set_[constraint_name],
                       !.path_constraint_set_ = MapErase(@, constraint_name),
                       !.initialized_ = FALSE], Returned(TRUE))
     ELSE Completes(ctx, Returned(FALSE))

addTerminalConstraint(constraint_name, dual_dim) ==
  /\ CallEnabled
  /\ Completes([ctx EXCEPT
                  !.terminal_constraint_set_ = MapPut(@, constraint_name, dual_dim),
                  !.total_dual_dim_ = @ + dual_dim,
                  !.initialized_ = FALSE], Void)

removeTerminalConstraintKeepsInitialized(constraint_name) ==
  /\ CallEnabled
  /\ IF constraint_name \in DOMAIN ctx.terminal_constraint_set_
     THEN Completes([ctx EXCEPT
                       !.total_dual_dim_ = @ - ctx.terminal_constraint_set_[constraint_name],
                       !.terminal_constraint_set_ = MapErase(@, constraint_name)],
                    Returned(TRUE))
     ELSE Completes(ctx, Returned(FALSE))

removeTerminalConstraint(constraint_name) ==
  /\ CallEnabled
  /\ IF constraint_name \in DOMAIN ctx.terminal_constraint_set_
     THEN Completes([ctx EXCEPT
                       !.total_dual_dim_ = @ - ctx.terminal_constraint_set_[constraint_name],
                       !.terminal_constraint_set_ = MapErase(@, constraint_name),
                       !.initialized_ = FALSE], Returned(TRUE))
     ELSE Completes(ctx, Returned(FALSE))

registerSolver(solver_name, factory) ==
  /\ CallEnabled
  /\ external_solver_registry_' = MapPut(external_solver_registry_, solver_name, factory)
  /\ ret' = Void
  /\ nops' = nops + 1
  /\ UNCHANGED <<ctx, solver_, pc, frame, sols, futures, precompute>>

(***************************************************************************)
(* CDDP::solve(solver_type) up to the call of solver_->initialize.         *)
(***************************************************************************)
solve(solver_type) ==
  /\ CallEnabled
  /\ nops' = nops + 1
  /\ UNCHANGED <<external_solver_registry_, futures, precompute>>
  /\ IF MissingConfiguration(ctx)
     THEN /\ ret' = Threw("runtime_error")
          /\ UNCHANGED <<ctx, solver_, pc, frame, sols>>
     ELSE LET kind == createSolver(external_solver_registry_, solver_type)
          IN  /\ ctx' = initializeProblemIfNecessary(ctx)
              /\ solver_' = NewSolver(kind)
              /\ IF kind = "null"
                 THEN /\ ret' = ReturnedSolution(UnknownSolverSolution(solver_type))
                      /\ sols' = Append(sols, UnknownSolverSolution(solver_type))
                      /\ UNCHANGED <<pc, frame>>
                 ELSE /\ pc' = "initialize"
                      /\ frame' = [NoFrame EXCEPT !.solver_type = solver_type]
                      /\ ret' = NoReturn
                      /\ UNCHANGED sols

(***************************************************************************)
(* The call of solver_->initialize.  Reading past the end of X_ or U_ is  *)
(* undefined behaviour: the cold start's test reads U_[0] of an empty U_   *)
(* when the horizon is 0 (the read may abort, or the test may come out     *)
(* true; coming out false leads to a division by the zero horizon), and a  *)
(* warm start evaluates a trajectory shorter than the horizon.  So is the   *)
(* reference-state test's getObjective() when the objective was replaced   *)
(* by a null pointer after the context had been initialized.  The run      *)
(* then ends in the state "undefined".                                     *)
(***************************************************************************)
EndsUndefined ==
  /\ pc' = "undefined"
  /\ ret' = Undefined
  /\ UNCHANGED <<ctx, external_solver_registry_, futures, precompute, solver_, frame, sols, nops>>

InitializeReturns(trajectory_provided) ==
  LET r == initialize(ctx, solver_, trajectory_provided)
  IN  /\ ctx' = r.ctx
      /\ solver_' = r.solver
      /\ pc' = "solve"
      /\ UNCHANGED <<external_solver_registry_, futures, precompute, frame, ret, sols, nops>>

SolverInitialize ==
  /\ pc = "initialize"
  /\ LET sized == Len(ctx.X_) = ctx.horizon_ + 1 /\ Len(ctx.U_) = ctx.horizon_
     IN  IF ~ctx.objective_.set THEN EndsUndefined
         ELSE IF ctx.options_.warm_start
         THEN IF TrajectoryIndexable(ctx) THEN InitializeReturns(TRUE)
              ELSE EndsUndefined
         ELSE IF sized /\ ctx.horizon_ = 0
              THEN \E aborts \in BOOLEAN :
                     IF aborts THEN EndsUndefined ELSE InitializeReturns(TRUE)
              ELSE IF ~sized /\ ctx.horizon_ = 0 THEN EndsUndefined
              ELSE InitializeReturns(sized)

(***************************************************************************)
(* IPDDPSolver::solve: the preamble, then one action per stage of the      *)
(* main loop.                                                              *)
(***************************************************************************)
SolverSolve ==
  /\ pc = "solve"
  /\ frame' = [frame EXCEPT
       !.iter = 0, !.termination_reason = "MaxIterationsReached", !.dJ = 0,
       !.forward_pass_success = FALSE,
       !.history = IF ctx.options_.return_iteration_info
                   THEN PushBack(EmptyHistory, HistoryEntry(ctx, solver_, One, One))
                   ELSE EmptyHistory]
  /\ pc' = "loop"
  /\ UNCHANGED <<ctx, external_solver_registry_, futures, precompute, solver_, ret, sols, nops>>

LoopHead ==
  /\ pc = "loop"
  /\ IF frame.iter < ctx.options_.max_iterations
     THEN \E timed_out \in (IF ctx.options_.max_cpu_time > 0 THEN BOOLEAN ELSE {FALSE}) :
            IF timed_out
            THEN /\ frame' = [frame EXCEPT !.iter = @ + 1,
                                           !.termination_reason = "MaxCpuTimeReached"]
                 /\ pc' = "finish"
            ELSE /\ frame' = [frame EXCEPT !.iter = @ + 1]
                 /\ pc' = "backward"
     ELSE /\ pc' = "finish"
          /\ UNCHANGED frame
  /\ UNCHANGED <<ctx, external_solver_registry_, futures, precompute, solver_, ret, sols, nops>>

BackwardStep ==
  /\ pc = "backward"
  /\ LET b == backwardPass(ctx, solver_)
     IN  /\ solver_' = b.solver
         /\ IF b.ok
            THEN /\ ctx' = b.ctx
                 /\ pc' = "forward"
                 /\ UNCHANGED frame
            ELSE /\ ctx' = increaseRegularization(ctx)
                 /\ IF isRegularizationLimitReached(increaseRegularization(ctx))
                    THEN /\ frame' = [frame EXCEPT !.termination_reason =
                                        "RegularizationLimitReached_NotConverged"]
                         /\ pc' = "finish"
                    ELSE /\ pc' = "backward"
                         /\ UNCHANGED frame
  /\ UNCHANGED <<external_solver_registry_, futures, precompute, ret, sols, nops>>

Accept(c, sv, best_result) ==
  LET c1 == [c EXCEPT !.X_ = best_result.state_trajectory,
                      !.U_ = best_result.control_trajectory,
                      !.cost_ = best_result.cost,
                      !.merit_function_ = best_result.merit_function,
                      !.alpha_pr_ = best_result.alpha_pr]
      sv1 == IF best_result.has_duals
             THEN [sv EXCEPT !.Y_ = best_result.dual_trajectory,
                             !.S_ = best_result.slack_trajectory,
                             !.G_ = best_result.constraint_eval_trajectory]
             ELSE sv
  IN  [ctx |-> c1, solver |-> sv1]

AfterForwardPass(best_result) ==
  LET a == Accept(ctx, solver_, best_result)
  IN  IF best_result.success
      THEN /\ ctx' = decreaseRegularization(a.ctx)
           /\ solver_' = a.solver
           /\ frame' = [frame EXCEPT
                !.dJ = ctx.cost_ - best_result.cost,
                !.forward_pass_success = TRUE,
                !.history = updateIterationHistory(a.ctx, a.solver, @,
                                                   best_result.alpha_du)]
           /\ pc' = "converge"
      ELSE /\ ctx' = increaseRegularization(ctx)
           /\ UNCHANGED solver_
           /\ IF isRegularizationLimitReached(increaseRegularization(ctx))
              THEN /\ frame' = [frame EXCEPT
                         !.forward_pass_success = FALSE,
                         !.termination_reason =
                            "RegularizationLimitReached_NotConverged"]
                   /\ pc' = "finish"
              ELSE /\ frame' = [frame EXCEPT !.forward_pass_success = FALSE]
                   /\ pc' = "converge"

ForwardStep ==
  /\ pc = "forward"
  /\ ~ctx.options_.enable_parallel
  /\ AfterForwardPass(performForwardPass(ctx, solver_))
  /\ UNCHANGED <<external_solver_registry_, futures, precompute, ret, sols, nops>>

(***************************************************************************)
(* The parallel branch of performForwardPass: one std::async task per      *)
(* step size, each running forwardPass on the shared context and solver;   *)
(* the driver gets every future in the order of the ladder and only then   *)
(* returns to solve, which writes the accepted iterate.                    *)
(***************************************************************************)
LaunchTrials ==
  /\ pc = "forward"
  /\ ctx.options_.enable_parallel
  /\ ~futures.launched
  /\ futures' = [launched |-> TRUE,
                 trials |-> [i \in 1..Len(ctx.alphas_) |-> [done |-> FALSE]]]
  /\ frame' = [frame EXCEPT !.forward_pass_success = FALSE]
  /\ UNCHANGED <<ctx, external_solver_registry_, solver_, pc, ret, sols, nops,
                 precompute>>

TrialInPlace(i) ==
  /\ pc = "forward"
  /\ futures.launched
  /\ i \in DOMAIN futures.trials
  /\ ~futures.trials[i].done
  /\ LET result == forwardPass(ctx, solver_, ctx.alphas_[i])
     IN  /\ futures' = [futures EXCEPT !.trials[i] =
                          [done |-> TRUE, result |-> result]]
         /\ ctx' = [ctx EXCEPT !.U_ = result.control_trajectory]
  /\ UNCHANGED <<external_solver_registry_, solver_, pc, frame, ret, sols,
                 nops, precompute>>

Trial(i) ==
  /\ pc = "forward"
  /\ futures.launched
  /\ i \in DOMAIN futures.trials
  /\ ~futures.trials[i].done
  /\ futures' = [futures EXCEPT !.trials[i] =
                   [done |-> TRUE,
                    result |-> forwardPass(ctx, solver_, ctx.alphas_[i])]]
  /\ UNCHANGED <<ctx, external_solver_registry_, solver_, pc, frame, ret, sols,
                 nops, precompute>>

JoinTrials ==
  /\ pc = "forward"
  /\ futures.launched
  /\ \A i \in DOMAIN futures.trials : futures.trials[i].done
  /\ AfterForwardPass(
       CollectFutures([i \in DOMAIN futures.trials |-> futures.trials[i].result],
                      BestInitial(ctx)))
  /\ futures' = NoFutures
  /\ UNCHANGED <<external_solver_registry_, precompute, ret, sols, nops>>

ConvergeStep ==
  /\ pc = "converge"
  /\ LET reason == checkConvergence(ctx, solver_, frame.dJ, frame.iter)
     IN  IF reason # ""
         THEN /\ frame' = [frame EXCEPT !.termination_reason = reason]
              /\ pc' = "finish"
         ELSE /\ pc' = "barrier"
              /\ UNCHANGED frame
  /\ UNCHANGED <<ctx, external_solver_registry_, futures, precompute, solver_, ret, sols, nops>>

BarrierStep ==
  /\ pc = "barrier"
  /\ LET r == updateBarrierParameters(ctx, solver_)
     IN  /\ ctx' = r.ctx
         /\ solver_' = r.solver
  /\ pc' = "loop"
  /\ UNCHANGED <<external_solver_registry_, futures, precompute, frame, ret, sols, nops>>

Finish ==
  /\ pc = "finish"
  /\ ret' = ReturnedSolution(Solution(ctx, solver_, frame))
  /\ sols' = Append(sols, Solution(ctx, solver_, frame))
  /\ pc' = "idle"
  /\ frame' = NoFrame
  /\ UNCHANGED <<ctx, external_solver_registry_, futures, precompute, solver_, nops>>

Next ==
  \/ \E system \in BOOLEAN : setDynamicalSystem(system)
  \/ \E objective \in ObjectiveInputs : setObjective(objective)
  \/ \E horizon \in Horizons : setHorizon(horizon)
  \/ \E tr \in TrajectoryInputs : setInitialTrajectory(tr.X, tr.U)
  \/ \E n \in ConstraintNames, m \in DualDims : addPathConstraint(n, m)
  \/ \E n \in ConstraintNames : removePathConstraint(n)
  \/ \E n \in ConstraintNames, m \in DualDims : addTerminalConstraint(n, m)
  \/ \E n \in ConstraintNames : removeTerminalConstraint(n)
  \/ \E name \in RegisteredNames, factory \in Factories : registerSolver(name, factory)
  \/ \E name \in SolverNames : solve(name)
  \/ SolverInitialize
  \/ SolverSolve
  \/ LoopHead
  \/ BackwardStep
  \/ ForwardStep
  \/ LaunchTrials
  \/ \E i \in DOMAIN futures.trials : Trial(i)
  \/ JoinTrials
  \/ ConvergeStep
  \/ BarrierStep
  \/ Finish

Spec == Init /\ [][Next]_vars

(***************************************************************************)
(* IPDDPSolver::precomputeDynamicsDerivatives and                          *)
(* IPDDPSolver::precomputeConstraintGradients, which share their chunking  *)
(* code, for horizons around MIN_HORIZON_FOR_PARALLEL.  The thread count   *)
(* is the smaller of options.num_threads and what                          *)
(* std::thread::hardware_concurrency reports, which is 0 when the platform *)
(* cannot tell.  writes[t + 1] counts the assignments to F_x_[t]; chunk k  *)
(* is the range [start_t, end_t) of the k-th task.  An integer division by *)
(* zero is undefined behaviour and ends the run in outcome "undefined".    *)
(***************************************************************************)
MIN_HORIZON_FOR_PARALLEL == 50
PrecomputeHorizons == {49, 50, 51, 53}
ConfiguredThreads == {0, 1, 2, 3, 4, 7}
HardwareThreads == {0, 2, 8}

RECURSIVE ChunkLoop(_, _, _, _, _)
ChunkLoop(horizon, num_threads, chunk_size, thread_id, launched) ==
  IF thread_id >= num_threads THEN launched
  ELSE LET start_t == thread_id * chunk_size
           end_t == IF thread_id = num_threads - 1 THEN horizon
                    ELSE (thread_id + 1) * chunk_size
       IN  IF start_t >= horizon THEN launched
           ELSE ChunkLoop(horizon, num_threads, chunk_size, thread_id + 1,
                          Append(launched, [start_t |-> start_t, end_t |-> end_t]))

ChunkRanges(horizon, num_threads) ==
  ChunkLoop(horizon, num_threads, Max(1, horizon \div num_threads), 0, <<>>)

PrecomputeInit ==
  /\ ctx = Constructor(TRUE, QuadraticObjective(One), 0,
                       [BaseOptions EXCEPT !.enable_parallel = TRUE])
  /\ external_solver_registry_ = EmptyMap
  /\ solver_ = NoSolver
  /\ pc = "idle"
  /\ frame = NoFrame
  /\ ret = NoReturn
  /\ sols = <<>>
  /\ nops = 0
  /\ futures = NoFutures
  /\ precompute = NoPrecompute

PrecomputeFrame ==
  UNCHANGED <<ctx, external_solver_registry_, solver_, pc, frame, ret, sols,
              nops, futures>>

precomputeDynamicsDerivatives(horizon, configured, hardware) ==
  /\ ~precompute.running
  /\ precompute.outcome = "none"
  /\ LET use_parallel == ctx.options_.enable_parallel
                            /\ horizon >= MIN_HORIZON_FOR_PARALLEL
         num_threads == Min(configured, hardware)
         resized == [t \in 1..horizon |-> 0]
     IN  IF ~use_parallel
         THEN precompute' = [NoPrecompute EXCEPT
                               !.outcome = "done", !.horizon = horizon,
                               !.writes = [t \in 1..horizon |-> 1]]
         ELSE IF num_threads = 0
         THEN precompute' = [NoPrecompute EXCEPT
                               !.outcome = "undefined", !.horizon = horizon,
                               !.writes = resized]
         ELSE precompute' = [NoPrecompute EXCEPT
                               !.running = TRUE, !.horizon = horizon,
                               !.chunks = ChunkRanges(horizon, num_threads),
                               !.writes = resized]
  /\ PrecomputeFrame

PrecomputeWorker(k) ==
  /\ precompute.running
  /\ k \in DOMAIN precompute.chunks
  /\ k \notin precompute.done
  /\ precompute' = [precompute EXCEPT
       !.done = @ \cup {k},
       !.writes = [t \in DOMAIN @ |->
                     IF /\ t - 1 >= precompute.chunks[k].start_t
                        /\ t - 1 < precompute.chunks[k].end_t
                     THEN @[t] + 1 ELSE @[t]]]
  /\ PrecomputeFrame

PrecomputeWait ==
  /\ precompute.running
  /\ precompute.done = DOMAIN precompute.chunks
  /\ precompute' = [precompute EXCEPT !.running = FALSE, !.outcome = "done"]
  /\ PrecomputeFrame

PrecomputeNext ==
  \/ \E horizon \in PrecomputeHorizons, configured \in ConfiguredThreads,
        hardware \in HardwareThreads :
       precomputeDynamicsDerivatives(horizon, configured, hardware)
  \/ \E k \in DOMAIN precompute.chunks : PrecomputeWorker(k)
  \/ PrecomputeWait

PrecomputeSpec == PrecomputeInit /\ [][PrecomputeNext]_vars

(***************************************************************************)
(* CDDP::isKKTToleranceSatisfied, a const query on the context, and a      *)
(* specification that applies it to contexts whose infeasibility measures, *)
(* as a solver's backward pass and filter reset leave them, lie below, at  *)
(* and above the tolerance.                                                *)
(***************************************************************************)
isKKTToleranceSatisfied(c) ==
  c.inf_pr_ <= c.options_.tolerance /\ c.inf_du_ <= c.options_.tolerance

KKTMeasures == {0, 50, 100, 150}
KKTOptions == {BaseOptions, [BaseOptions EXCEPT !.tolerance = 1]}

KKTInit ==
  /\ \E inf_pr \in KKTMeasures, inf_du \in KKTMeasures, inf_comp \in KKTMeasures,
        options \in KKTOptions :
       ctx = [Constructor(TRUE, QuadraticObjective(One), 1, options)
                EXCEPT !.inf_pr_ = inf_pr, !.inf_du_ = inf_du,
                       !.inf_comp_ = inf_comp]
  /\ external_solver_registry_ = EmptyMap
  /\ solver_ = NoSolver
  /\ pc = "idle"
  /\ frame = NoFrame
  /\ ret = NoReturn
  /\ sols = <<>>
  /\ nops = 0
  /\ futures = NoFutures
  /\ precompute = NoPrecompute

KKTQuery ==
  /\ pc = "idle"
  /\ nops < MaxOps
  /\ ret' = Returned(isKKTToleranceSatisfied(ctx))
  /\ nops' = nops + 1
  /\ UNCHANGED <<ctx, external_solver_registry_, solver_, pc, frame, sols,
                 futures, precompute>>

KKTNext == KKTQuery

KKTSpec == KKTInit /\ [][KKTNext]_vars

(***************************************************************************)
(* Properties.                                                             *)
(***************************************************************************)
UnknownName(name) ==
  /\ name \notin DOMAIN external_solver_registry_
  /\ name \notin BuiltinSolvers \cup BuiltinAliases

WellFormedUnknownSolution(r) ==
  /\ r.kind = "solution"
  /\ r.value.state_trajectory = <<>>
  /\ r.value.control_trajectory = <<>>
  /\ r.value.time_points = <<>>
  /\ r.value.iterations_completed = 0
  /\ r.value.status_message = "UnknownSolver"

(* C1 (as stated): solve(name) with a name that is neither registered nor  *)
(* built in never throws and returns the empty UnknownSolver solution, in  *)
(* every state of the context.                                             *)
C1_UnknownSolverInEveryState ==
  [][\A name \in SolverNames :
       (UnknownName(name) /\ solve(name)) => WellFormedUnknownSolution(ret')]_vars

(* C1 (amended): solve(name) with an unknown name returns the empty        *)
(* UnknownSolver solution without throwing whenever the context is already *)
(* initialized or holds both a dynamical system and an objective.          *)
C1_UnknownSolverWhenConfigured ==
  [][\A name \in SolverNames :
       (UnknownName(name) /\ solve(name)
          /\ (ctx.initialized_ \/ (ctx.system_ /\ ctx.objective_.set)))
       => WellFormedUnknownSolution(ret')]_vars

C1_UnknownSolverReturned ==
  /\ pc = "idle" /\ ret.kind = "solution"
  /\ ret.value.status_message = "UnknownSolver"
  /\ ret.value.solver_name = "NoSuchSolver"
  /\ ctx.initialized_

(* C2: solve() on a context without a dynamical system, without an         *)
(* objective, or with horizon 0 throws at once and leaves the context as   *)
(* it was.                                                                 *)
C2_MisconfiguredSolveThrowsUnchanged ==
  [][\A name \in SolverNames :
       (solve(name) /\ (~ctx.system_ \/ ~ctx.objective_.set \/ ctx.horizon_ = 0))
       => (ret'.kind = "threw" /\ ctx' = ctx)]_vars

(* C3: getTotalDualDim() is the sum of the dual dimensions of the          *)
(* constraints held in the path and terminal stores.                       *)
C3_TotalDualDimIsStoredSum ==
  ctx.total_dual_dim_ =
    SetSum(ctx.path_constraint_set_, DOMAIN ctx.path_constraint_set_)
      + SetSum(ctx.terminal_constraint_set_, DOMAIN ctx.terminal_constraint_set_)

(* C4: while a solver's initialize() or solve() runs, X has horizon+1      *)
(* entries and U has horizon entries.                                      *)
C4_TrajectoriesSizedDuringSolve ==
  pc \in {"initialize", "solve", "loop", "backward", "forward", "converge",
          "barrier", "finish"}
  => (Len(ctx.X_) = ctx.horizon_ + 1 /\ Len(ctx.U_) = ctx.horizon_)

SolvePhases ==
  {"solve", "loop", "backward", "forward", "converge", "barrier", "finish"}

PreviousSolution == sols[Len(sols)]

(* C5: with warm_start = true, a second solve on the same context, its     *)
(* constraint set and trajectory sizes unchanged, starts from the first    *)
(* solve's X, U, gains k_u/K_u, duals and slacks, with the barrier         *)
(* parameter of the consistent warm start, 0.1 * mu_initial.               *)
C5_WarmStartKeepsIterate ==
  ( /\ pc = "solve"
    /\ ctx.options_.warm_start
    /\ nops = 2 /\ Len(sols) = 1
    /\ PreviousSolution.status_message # "UnknownSolver" )
  => /\ solver_.mu_ = Mul(ctx.options_.mu_initial, One \div 10)
     /\ solver_.K_u_ = PreviousSolution.control_feedback_gains_K
     /\ ctx.X_ = PreviousSolution.state_trajectory
     /\ ctx.U_ = PreviousSolution.control_trajectory

(* C6: with warm_start = false, two successive solves of the same          *)
(* untouched problem with the same solver return the same trajectories,    *)
(* final objective, iteration count and status.                            *)
C6_ColdSolvesRepeat ==
  ( /\ pc = "idle" /\ nops = 2 /\ Len(sols) = 2
    /\ ~ctx.options_.warm_start
    /\ sols[1].solver_name = sols[2].solver_name )
  => /\ sols[1].state_trajectory = sols[2].state_trajectory
     /\ sols[1].control_trajectory = sols[2].control_trajectory
     /\ sols[1].final_objective = sols[2].final_objective
     /\ sols[1].iterations_completed = sols[2].iterations_completed
     /\ sols[1].status_message = sols[2].status_message

(* C7: updateBarrierParameters never raises the barrier parameter.         *)
C7_BarrierNonIncreasing ==
  [][pc = "barrier" => solver_'.mu_ <= solver_.mu_]_vars

(* C8: from the end of initialize() to the return of solve(), the barrier  *)
(* parameter is at least mu_min_value.                                     *)
C8_BarrierAtLeastMuMin ==
  pc \in SolvePhases => solver_.mu_ >= ctx.options_.mu_min_value

(* C9: from initialization on, the regularization lies within              *)
(* [reg_min_value, reg_max_value].                                         *)
C9_RegularizationWithinBounds ==
  ctx.initialized_ =>
    /\ ctx.regularization_ >= ctx.options_.reg_min_value
    /\ ctx.regularization_ <= ctx.options_.reg_max_value

StrictlyPositive(store) ==
  \A n \in DOMAIN store :
    \A t \in 1..Len(store[n]) :
      \A i \in 1..Len(store[n][t]) : store[n][t][i] > 0

WithinFraction(new, old, tau) ==
  \A n \in DOMAIN old :
    \A t \in 1..Len(old[n]) :
      \A i \in 1..Len(old[n][t]) :
        new[n][t][i] * One >= (One - tau) * old[n][t][i]

(* C10: the slacks and duals of the initial iterate and of every accepted  *)
(* iterate are strictly positive, and a forward pass is accepted only if   *)
(* every slack and dual keeps at least the fraction 1 - tau of its old     *)
(* value, tau = max(tau_min, 1 - mu).                                      *)
C10_SlackDualPositivity ==
  /\ [](pc \in SolvePhases =>
          (StrictlyPositive(solver_.S_) /\ StrictlyPositive(solver_.Y_)))
  /\ [][(pc = "forward" /\ frame'.forward_pass_success)
        => LET tau == Max(ctx.options_.min_fraction_to_boundary,
                          One - solver_.mu_)
           IN  /\ WithinFraction(solver_'.S_, solver_.S_, tau)
               /\ WithinFraction(solver_'.Y_, solver_.Y_, tau)]_vars

C10_AcceptedConstrainedStep ==
  /\ pc = "converge" /\ frame.forward_pass_success
  /\ DOMAIN ctx.path_constraint_set_ # {}
  /\ ctx.horizon_ = MaxHorizon
  /\ ctx.step_norm_ > 0
  /\ StrictlyPositive(solver_.S_) /\ StrictlyPositive(solver_.Y_)

IteratePoint(c, sv) ==
  [ merit_function |-> c.merit_function_,
    constraint_violation |->
      SeqSum([i \in 1..Len(AllComponents(sv.S_, c)) |->
                Abs(AllComponents(sv.G_, c)[i] + AllComponents(sv.S_, c)[i])]) ]

Dominates(p, q) ==
  /\ q.merit_function >= p.merit_function
  /\ q.constraint_violation >= p.constraint_violation

(* C11: an iterate accepted by the forward pass is dominated neither by a  *)
(* point of the filter nor by the iterate accepted before it: its merit    *)
(* is smaller or its constraint violation is smaller.                      *)
C11_AcceptedNotDominated ==
  [][(pc = "forward" /\ frame'.forward_pass_success
        /\ DOMAIN ctx.path_constraint_set_ # {})
     => /\ \A i \in 1..Len(solver_.filter_) :
             ~Dominates(solver_.filter_[i], IteratePoint(ctx', solver_'))
        /\ ~Dominates(IteratePoint(ctx, solver_), IteratePoint(ctx', solver_'))]_vars

TerminalStatuses ==
  {"OptimalSolutionFound", "AcceptableSolutionFound", "MaxIterationsReached",
   "MaxCpuTimeReached", "RegularizationLimitReached_NotConverged"}

(* C12: every return of IPDDPSolver::solve carries one of the five         *)
(* terminal statuses, never "Running", also when max_iterations is 0.      *)
C12_TerminalStatus ==
  [][pc = "finish" =>
       /\ ret'.kind = "solution"
       /\ ret'.value.status_message \in TerminalStatuses]_vars

C12_ReturnedWithoutIterating ==
  /\ pc = "idle" /\ ret.kind = "solution"
  /\ ctx.options_.max_iterations = 0
  /\ ret.value.solver_name = "IPDDP"
  /\ ret.value.status_message = "MaxIterationsReached"
  /\ ret.value.iterations_completed = 0

DocumentedKeys ==
  {"solver_name", "status_message", "iterations_completed", "solve_time_ms",
   "final_objective", "final_step_length", "time_points", "state_trajectory",
   "control_trajectory", "control_feedback_gains_K", "final_regularization",
   "final_barrier_parameter_mu", "final_primal_infeasibility",
   "final_dual_infeasibility", "final_complementary_infeasibility"}

(* C13: every solution returned by CDDP::solve, the UnknownSolver one      *)
(* included, holds all the documented keys.                                *)
C13_SolutionHasDocumentedKeys ==
  \A i \in 1..Len(sols) : DocumentedKeys \subseteq DOMAIN sols[i]

HistorySolutionKeys ==
  {"history_objective", "history_merit_function", "history_step_length_primal",
   "history_step_length_dual", "history_dual_infeasibility",
   "history_primal_infeasibility", "history_complementary_infeasibility",
   "history_barrier_mu"}

HistoryLengths(h) == {Len(h[k]) : k \in HistoryKeys}

(* C14: with return_iteration_info, the history arrays have one common     *)
(* length: 1 after the preamble of solve, one more after each accepted     *)
(* forward pass and nothing more after any other step, and the returned    *)
(* solution carries the arrays at that length.                             *)
C14_HistoryLengths ==
  [][ctx.options_.return_iteration_info =>
       /\ pc = "solve" => HistoryLengths(frame'.history) = {1}
       /\ pc = "forward" =>
            HistoryLengths(frame'.history) =
              {Len(frame.history.objective)
                 + (IF frame'.forward_pass_success THEN 1 ELSE 0)}
       /\ pc \in {"loop", "backward", "converge", "barrier"} =>
            frame'.history = frame.history
       /\ pc = "finish" =>
            /\ HistorySolutionKeys \subseteq DOMAIN ret'.value
            /\ {Len(ret'.value[k]) : k \in HistorySolutionKeys}
                 = {Len(frame.history.objective)}]_vars

C14_HistoryShorterThanIterations ==
  /\ pc = "idle" /\ ret.kind = "solution"
  /\ "history_objective" \in DOMAIN ret.value
  /\ Len(ret.value.history_objective) = 2
  /\ Len(ret.value.history_barrier_mu) = 2
  /\ ret.value.iterations_completed = 2

AllNames == SolverNames \cup BuiltinSolvers \cup BuiltinAliases

(* C15: createSolver makes the registered factory's solver for every       *)
(* registered name, built-in names included, the built-in solver for an    *)
(* unregistered built-in name, and no solver for any other name that is    *)
(* not an alias; registerSolver sets the factory of its name, replacing    *)
(* an earlier one, and leaves the other names' factories alone.            *)
C15_RegistryLookup ==
  /\ [](\A name \in AllNames :
          LET made == createSolver(external_solver_registry_, name)
          IN  /\ name \in DOMAIN external_solver_registry_
                   => made = external_solver_registry_[name]
              /\ (name \notin DOMAIN external_solver_registry_
                    /\ name \in BuiltinSolvers) => made = name
              /\ (name \notin DOMAIN external_solver_registry_
                    /\ name \notin BuiltinSolvers \cup BuiltinAliases)
                   => made = "null")
  /\ [][\A name \in RegisteredNames, factory \in Factories :
          registerSolver(name, factory) =>
            /\ DOMAIN external_solver_registry_'
                 = DOMAIN external_solver_registry_ \cup {name}
            /\ external_solver_registry_'[name] = factory
            /\ \A other \in DOMAIN external_solver_registry_ \ {name} :
                 external_solver_registry_'[other]
                   = external_solver_registry_[other]]_vars

C15_FactoryShadowsBuiltin ==
  /\ "IPDDP" \in DOMAIN external_solver_registry_
  /\ external_solver_registry_["IPDDP"] = "FactoryB"
  /\ pc = "solve" /\ frame.solver_type = "IPDDP"
  /\ solver_.kind = "FactoryB"

RemovedOnly(before, after, name) ==
  /\ DOMAIN after = DOMAIN before \ {name}
  /\ \A other \in DOMAIN after : after[other] = before[other]

(* C16: removePathConstraint and removeTerminalConstraint return true      *)
(* exactly when a constraint of that name was stored; a false return       *)
(* leaves both stores, the total dual dimension and the initialized flag   *)
(* as they were; a true return removes that constraint alone from its      *)
(* store, leaves the other store alone and clears the initialized flag.    *)
C16_RemoveConstraintFrame ==
  [][\A n \in ConstraintNames :
       /\ removePathConstraint(n) =>
            /\ ret'.kind = "returned"
            /\ ret'.value = (n \in DOMAIN ctx.path_constraint_set_)
            /\ ~ret'.value =>
                 /\ ctx'.path_constraint_set_ = ctx.path_constraint_set_
                 /\ ctx'.terminal_constraint_set_ = ctx.terminal_constraint_set_
                 /\ ctx'.total_dual_dim_ = ctx.total_dual_dim_
                 /\ ctx'.initialized_ = ctx.initialized_
            /\ ret'.value =>
                 /\ RemovedOnly(ctx.path_constraint_set_,
                                ctx'.path_constraint_set_, n)
                 /\ ctx'.terminal_constraint_set_ = ctx.terminal_constraint_set_
                 /\ ~ctx'.initialized_
       /\ removeTerminalConstraint(n) =>
            /\ ret'.kind = "returned"
            /\ ret'.value = (n \in DOMAIN ctx.terminal_constraint_set_)
            /\ ~ret'.value =>
                 /\ ctx'.path_constraint_set_ = ctx.path_constraint_set_
                 /\ ctx'.terminal_constraint_set_ = ctx.terminal_constraint_set_
                 /\ ctx'.total_dual_dim_ = ctx.total_dual_dim_
                 /\ ctx'.initialized_ = ctx.initialized_
            /\ ret'.value =>
                 /\ RemovedOnly(ctx.terminal_constraint_set_,
                                ctx'.terminal_constraint_set_, n)
                 /\ ctx'.path_constraint_set_ = ctx.path_constraint_set_
                 /\ ~ctx'.initialized_]_vars

C16_RemovedAfterSolve ==
  /\ ret = Returned(TRUE)
  /\ Len(sols) = 1
  /\ ~ctx.initialized_
  /\ DOMAIN ctx.terminal_constraint_set_ = {}
  /\ DOMAIN ctx.path_constraint_set_ = {}
  /\ ctx.total_dual_dim_ = 0

(* C17: the backward-pass retry loop of an iteration ends after finitely   *)
(* many retries: in the retry loop the backward pass succeeds, or the      *)
(* increase of the regularization reaches the maximum and the solve ends   *)
(* with RegularizationLimitReached_NotConverged, or the retry is made with *)
(* a strictly larger regularization; a retry made from the same context    *)
(* repeats the same failure for ever.                                      *)
C17_BackwardRetryProgresses ==
  pc = "backward" =>
    LET b == backwardPass(ctx, solver_)
        raised == Min(ctx.regularization_ * ctx.options_.reg_update_factor,
                      ctx.options_.reg_max_value)
    IN  \/ b.ok
        \/ raised >= ctx.options_.reg_max_value
        \/ raised > ctx.regularization_

(* C18: in the unconstrained backward pass the factorization used at a     *)
(* time step is that of the current regularized Q_uu of that step: a       *)
(* successful pass leaves, at every step, the factorization and the gains  *)
(* k_u, K_u that a pass without any cached factorization computes from     *)
(* the same trajectory and regularization.                                 *)
C18_FactorizationIsCurrent ==
  [][(pc = "backward" /\ pc' = "forward"
        /\ DOMAIN ctx.path_constraint_set_ = {}) =>
       LET uncached == [solver_ EXCEPT
                          !.ldlt_valid = [t \in 1..ctx.horizon_ |-> FALSE]]
           fresh == BackwardSweep(ctx, BackwardStart(ctx, uncached), ctx.horizon_)
       IN  /\ fresh.ok
           /\ solver_'.ldlt_solvers = fresh.solver.ldlt_solvers
           /\ solver_'.k_u_ = fresh.solver.k_u_
           /\ solver_'.K_u_ = fresh.solver.K_u_]_vars

(* C19: a forward pass rejected for every step size leaves the accepted    *)
(* X, U, y, s, g, cost and merit as they were and increases the            *)
(* regularization; the solve ends with                                     *)
(* RegularizationLimitReached_NotConverged exactly when the increased      *)
(* regularization has reached its maximum, and goes on otherwise.          *)
C19_RejectedForwardPass ==
  [][(pc = "forward" /\ pc' # "forward" /\ ~frame'.forward_pass_success) =>
       /\ ctx'.X_ = ctx.X_ /\ ctx'.U_ = ctx.U_
       /\ solver_'.Y_ = solver_.Y_ /\ solver_'.S_ = solver_.S_
       /\ solver_'.G_ = solver_.G_
       /\ ctx'.cost_ = ctx.cost_
       /\ ctx'.merit_function_ = ctx.merit_function_
       /\ ctx'.regularization_ > ctx.regularization_
       /\ (pc' = "finish") = (ctx'.regularization_ >= ctx.options_.reg_max_value)
       /\ pc' = "finish" =>
            frame'.termination_reason = "RegularizationLimitReached_NotConverged"
       /\ pc' # "finish" => pc' = "converge"]_vars

RECURSIVE FailingStep(_, _, _)
FailingStep(c, w, t) ==
  IF t < 1 THEN 0
  ELSE LET n == IF DOMAIN c.path_constraint_set_ = {}
                THEN UnconstrainedStep(c, w, t) ELSE ConstrainedStep(c, w, t)
       IN  IF n.ok THEN FailingStep(c, n, t - 1) ELSE t

(* C20: a backward pass whose factorization fails at a time step stops at  *)
(* that step and returns failure: the solve stays in the retry loop or     *)
(* ends, the gains of that step and of the steps before it are not         *)
(* written, and X, U, y, s and g are as they were.                         *)
C20_FailedBackwardPassFrame ==
  [][pc = "backward" =>
       LET failed == FailingStep(ctx, BackwardStart(ctx, solver_), ctx.horizon_)
       IN  failed > 0 =>
             /\ pc' \in {"backward", "finish"}
             /\ ctx'.X_ = ctx.X_ /\ ctx'.U_ = ctx.U_
             /\ solver_'.Y_ = solver_.Y_ /\ solver_'.S_ = solver_.S_
             /\ solver_'.G_ = solver_.G_
             /\ \A t \in 1..failed :
                  /\ solver_'.k_u_[t] = solver_.k_u_[t]
                  /\ solver_'.K_u_[t] = solver_.K_u_[t]]_vars

C20_RetryAfterFailedBackwardPass ==
  /\ pc = "backward" /\ frame.iter = 1 /\ Len(sols) = 0
  /\ ctx.regularization_ > ctx.options_.reg_initial_value
  /\ ctx.horizon_ = MaxHorizon
  /\ DOMAIN ctx.path_constraint_set_ # {}

AcceptedIterate(c, sv) == <<c.X_, c.U_, sv.Y_, sv.S_>>

PreviousIterate(c, sv) ==
  <<c.X_, c.U_, sv.Y_, sv.S_, sv.G_, sv.k_u_, sv.K_u_, sv.k_y_, sv.K_y_,
    sv.k_s_, sv.K_s_>>

Covered(chunks) ==
  UNION { chunks[k].start_t .. chunks[k].end_t - 1 : k \in DOMAIN chunks }

(* C22: in the parallel pre-computation, for every horizon of at least 50  *)
(* and every configured thread count, the ranges handed to the workers are *)
(* pairwise disjoint and cover exactly the time steps 0 .. N-1, and the    *)
(* pre-computation ends with the derivatives of every time step computed   *)
(* exactly once, as the sequential computation does.                       *)
C22_ChunksPartitionHorizon ==
  precompute.horizon >= MIN_HORIZON_FOR_PARALLEL =>
    /\ precompute.outcome # "undefined"
    /\ \A j, k \in DOMAIN precompute.chunks :
         j # k => (precompute.chunks[j].start_t .. precompute.chunks[j].end_t - 1)
                    \cap (precompute.chunks[k].start_t
                            .. precompute.chunks[k].end_t - 1) = {}
    /\ Covered(precompute.chunks) = 0 .. precompute.horizon - 1
    /\ precompute.outcome = "done" =>
         \A t \in DOMAIN precompute.writes : precompute.writes[t] = 1

(* C23: on the iterate a forward pass starts from, the sequential and the  *)
(* parallel evaluation of the step-size ladder select the same proposal,   *)
(* and it is the first of the successful proposals of lowest merit.        *)
C23_SameProposalEitherWay ==
  (pc = "forward" /\ ~futures.launched) =>
    LET sequential == SequentialTrials(ctx, solver_, ctx.alphas_, BestInitial(ctx))
        parallel == ParallelTrials(ctx, solver_, ctx.alphas_, BestInitial(ctx))
        proposals == [i \in 1..Len(ctx.alphas_) |->
                        forwardPass(ctx, solver_, ctx.alphas_[i])]
        lowest(i) == /\ proposals[i].success
                     /\ \A j \in DOMAIN proposals :
                          proposals[j].success =>
                            /\ proposals[i].merit_function
                                 <= proposals[j].merit_function
                            /\ (proposals[j].merit_function
                                  = proposals[i].merit_function => i <= j)
    IN  /\ sequential = parallel
        /\ \A i \in DOMAIN proposals : lowest(i) => sequential = proposals[i]

(* C24: a barrier update that changes mu leaves, in the same step and so   *)
(* before the next forward pass, a filter of exactly one point: the merit  *)
(* cost - mu * sum(ln s) of the current iterate under the new mu and the   *)
(* sum of its constraint violations |g + s|; for each of the strategies.   *)
C24_BarrierChangeResetsFilter ==
  [][(pc = "barrier" /\ solver_'.mu_ # solver_.mu_) =>
       LET s == AllComponents(solver_'.S_, ctx')
           g == AllComponents(solver_'.G_, ctx')
       IN  /\ ctx.options_.strategy \in {"MONOTONIC", "IPOPT", "ADAPTIVE"}
           /\ ctx'.cost_ = ctx.cost_
           /\ solver_'.S_ = solver_.S_ /\ solver_'.G_ = solver_.G_
           /\ solver_'.filter_ =
                << [merit_function |->
                      ctx'.cost_ - Mul(solver_'.mu_,
                                       SeqSum([i \in 1..Len(s) |-> Ln(s[i])])),
                    constraint_violation |->
                      SeqSum([i \in 1..Len(s) |-> Abs(g[i] + s[i])])] >>]_vars

C24_FilterResetAfterBarrierChange ==
  /\ pc = "loop" /\ frame.iter = 1
  /\ Len(sols) = 0
  /\ ~ctx.options_.warm_start
  /\ ctx.options_.strategy = "IPOPT"
  /\ DOMAIN ctx.path_constraint_set_ # {}
  /\ solver_.mu_ < ctx.options_.mu_initial
  /\ Len(solver_.filter_) = 1

(* C25: in the first solve of a context to which no trajectory was given,  *)
(* initialize leaves X as the linear interpolation from the initial state  *)
(* to the reference state, every control and every gain k_u, K_u zero, mu  *)
(* at its initial value, the regularization at its initial value, and a    *)
(* filter that was reset to one point.                                     *)
C25_FirstSolveInitialization ==
  [][(pc = "initialize" /\ pc' = "solve" /\ nops = 1 /\ ctx.horizon_ >= 1) =>
       /\ ctx'.X_ = [t \in 1..ctx.horizon_ + 1 |->
                       ctx.initial_state_
                         + ((t - 1) * (ctx.reference_state_ - ctx.initial_state_))
                             \div ctx.horizon_]
       /\ ctx'.U_ = [t \in 1..ctx.horizon_ |-> 0]
       /\ solver_'.k_u_ = [t \in 1..ctx.horizon_ |-> 0]
       /\ solver_'.K_u_ = [t \in 1..ctx.horizon_ |-> 0]
       /\ solver_'.mu_ = ctx.options_.mu_initial
       /\ ctx'.regularization_ = ctx.options_.reg_initial_value
       /\ Len(solver_'.filter_) = 1]_vars

(* C27: when a cold-start initialize returns, every stored slack is        *)
(* max(slack scale, -g) and every stored dual is mu / s clamped to         *)
(* [0.01, 100] times the dual scale, g being the stored residual G of the  *)
(* trajectory the solve starts from.                                       *)
C27_ColdStartSlackDual ==
  [][(pc = "initialize" /\ pc' = "solve" /\ ~ctx.options_.warm_start) =>
       \A n \in DOMAIN ctx.path_constraint_set_ :
         \A t \in 1..ctx.horizon_ :
           \A i \in 1..ctx.path_constraint_set_[n] :
             LET g == solver_'.G_[n][t][i]
                 slack == solver_'.S_[n][t][i]
                 dual == solver_'.Y_[n][t][i]
                 o == ctx.options_
             IN  /\ slack = Max(o.slack_var_init_scale, -g)
                 /\ dual = Max(o.dual_var_init_scale \div 100,
                               Min(Div(solver_'.mu_, slack),
                                   o.dual_var_init_scale * 100))]_vars

(* C26: a trial of the constrained forward pass that reaches the filter    *)
(* is accepted exactly when the first of the three rules that applies      *)
(* accepts it, a trial failing one rule being tested against the next:     *)
(* rule 1 is theta' > theta_max and theta' < (1 - gamma) theta_old,        *)
(* rule 2 is max(theta', theta_old) < theta_minArmijo and alpha dV_1 < 0   *)
(* and M' < M_old + eta alpha dV_1, rule 3 is M' < M_old - s_M theta' or   *)
(* theta' < (1 - gamma) theta_old.                                         *)
TrialPoint(c, sv, alpha) ==
  LET r     == ForwardRollout(c, sv, alpha, [c.X_ EXCEPT ![1] = c.initial_state_], c.U_, 1)
      S_new == StepVectors(c, sv.S_, sv.k_s_, sv.K_s_, alpha, r.X)
      G_new == [n \in DOMAIN c.path_constraint_set_ |->
                  [t \in 1..c.horizon_ |->
                     ConstraintG(c.path_constraint_set_[n], r.X[t], r.U[t])]]
      sn    == AllComponents(S_new, c)
      gn    == AllComponents(G_new, c)
      tau   == Tau(c, sv)
  IN  [ reaches_filter |->
          /\ FractionToBoundary(c, tau, S_new, sv.S_)
          /\ DualLineSearch(c, sv, tau, r.X, c.alphas_).found,
        merit |-> IF FractionToBoundary(c, tau, S_new, sv.S_)
                  THEN TrajectoryCost(c, r.X, r.U)
                         - Mul(sv.mu_, SeqSum([i \in 1..Len(sn) |-> Ln(sn[i])]))
                  ELSE 0,
        violation |-> SeqSum([i \in 1..Len(sn) |-> Abs(gn[i] + sn[i])]) ]

ThreeRuleFilter(o, merit_new, violation_new, merit_old, violation_old, expected_improvement) ==
  \/ /\ violation_new > o.max_violation_threshold
     /\ violation_new * One < (One - o.violation_acceptance_threshold) * violation_old
  \/ /\ Max(violation_new, violation_old) < o.min_violation_for_armijo_check
     /\ expected_improvement < 0
     /\ merit_new < merit_old + Mul(o.armijo_constant, expected_improvement)
  \/ merit_new < merit_old - Mul(o.merit_acceptance_threshold, violation_new)
  \/ violation_new * One < (One - o.violation_acceptance_threshold) * violation_old

C26_ThreeRuleFilterTest ==
  (pc = "forward" /\ DOMAIN ctx.path_constraint_set_ # {}) =>
    \A i \in DOMAIN ctx.alphas_ :
      LET p == TrialPoint(ctx, solver_, ctx.alphas_[i])
      IN  p.reaches_filter =>
            (forwardPass(ctx, solver_, ctx.alphas_[i]).success
               <=> ThreeRuleFilter(ctx.options_, p.merit, p.violation,
                     ctx.merit_function_,
                     IF solver_.filter_ = <<>> THEN 0
                     ELSE solver_.filter_[Len(solver_.filter_)].constraint_violation,
                     Mul(ctx.alphas_[i], solver_.dV_[1])))

(* C28: isKKTToleranceSatisfied returns true exactly when inf_pr, inf_du   *)
(* and inf_comp are all at most options.tolerance.                         *)
C28_KKTToleranceSatisfied ==
  ret.kind = "returned" =>
    (ret.value <=>
       /\ ctx.inf_pr_ <= ctx.options_.tolerance
       /\ ctx.inf_du_ <= ctx.options_.tolerance
       /\ ctx.inf_comp_ <= ctx.options_.tolerance)

(* C29: in an iteration whose forward pass was rejected without the        *)
(* regularization reaching its limit, the solver does not end the solve    *)
(* with a convergence verdict and changes neither the barrier parameter    *)
(* mu nor the filter.                                                      *)
C29_RejectedIterationIsInert ==
  [][(pc \in {"converge", "barrier"} /\ ~frame.forward_pass_success) =>
       /\ pc' # "finish"
       /\ solver_'.mu_ = solver_.mu_
       /\ solver_'.filter_ = solver_.filter_]_vars

(* C30: a backward pass that fails at some time step leaves every stored   *)
(* gain (k_u, K_u, k_y, K_y, k_s, K_s) as it was before that pass, so the   *)
(* stored gains always come from one single successful sweep.              *)
C30_FailedBackwardPassKeepsGains ==
  [][(pc = "backward"
        /\ FailingStep(ctx, BackwardStart(ctx, solver_), ctx.horizon_) > 0) =>
       /\ solver_'.k_u_ = solver_.k_u_ /\ solver_'.K_u_ = solver_.K_u_
       /\ solver_'.k_y_ = solver_.k_y_ /\ solver_'.K_y_ = solver_.K_y_
       /\ solver_'.k_s_ = solver_.k_s_ /\ solver_'.K_s_ = solver_.K_s_]_vars

====
